---- MODULE Spec2Model ----
(***************************************************************************)
(* A model of the oanda package (src/oanda/__init__.py): the request       *)
(* middleware `moderate`, the response envelope APIResponse, the error     *)
(* APIError with its path redaction, the session Context and the           *)
(* AttributeDictionary constructor.                                        *)
(*                                                                         *)
(* Python strings are TLA+ strings, handled character by character with    *)
(* Len, SubSeq, Head, Tail and \o.  Every other Python / JSON value is a   *)
(* record [t, n, s, k, l]: t is the type tag, n the numeric payload, s the *)
(* text payload, k the keys of a mapping and l the items of a list or the  *)
(* values of a mapping (in key order).                                     *)
(***************************************************************************)
EXTENDS Integers, Sequences, FiniteSets, TLC

(***************************************************************************)
(* Python values                                                           *)
(***************************************************************************)
PInt(i)      == [t |-> "int",   n |-> i, s |-> "", k |-> <<>>, l |-> <<>>]
\* a float with one decimal digit, held as a number of tenths (15 is 1.5)
PFloat(i)    == [t |-> "float", n |-> i, s |-> "", k |-> <<>>, l |-> <<>>]
PBool(b)     == [t |-> "bool",  n |-> IF b THEN 1 ELSE 0, s |-> "", k |-> <<>>, l |-> <<>>]
PStr(str)    == [t |-> "str",   n |-> 0, s |-> str, k |-> <<>>, l |-> <<>>]
PNone        == [t |-> "none",  n |-> 0, s |-> "", k |-> <<>>, l |-> <<>>]
PList(items) == [t |-> "list",  n |-> 0, s |-> "", k |-> <<>>, l |-> items]
PDict(ks, vs) == [t |-> "dict", n |-> 0, s |-> "", k |-> ks, l |-> vs]
\* an AttributeDictionary instance (a dict subclass)
ADict(ks, vs) == [t |-> "adict", n |-> 0, s |-> "", k |-> ks, l |-> vs]

\* isinstance(v, (int, float)): bool is a subclass of int
IsIntOrFloat(v) == v.t \in {"int", "float", "bool"}
\* isinstance(v, dict): AttributeDictionary is a subclass of dict
IsInstanceDict(v) == v.t \in {"dict", "adict"}

(***************************************************************************)
(* Python string operations                                                *)
(***************************************************************************)
LowerAlpha == "abcdefghijklmnopqrstuvwxyz"
UpperAlpha == "ABCDEFGHIJKLMNOPQRSTUVWXYZ"
DigitChars == "0123456789"

CharAt(str, i) == SubSeq(str, i, i)
CharIn(c, str) == \E i \in 1..Len(str) : CharAt(str, i) = c
IndexIn(c, str) == CHOOSE i \in 1..Len(str) : CharAt(str, i) = c

UpperChar(c) == IF CharIn(c, LowerAlpha) THEN CharAt(UpperAlpha, IndexIn(c, LowerAlpha)) ELSE c
LowerChar(c) == IF CharIn(c, UpperAlpha) THEN CharAt(LowerAlpha, IndexIn(c, UpperAlpha)) ELSE c

RECURSIVE Upper(_)
\* str.upper()
Upper(str) == IF str = "" THEN "" ELSE UpperChar(Head(str)) \o Upper(Tail(str))

RECURSIVE Lower(_)
\* str.lower()
Lower(str) == IF str = "" THEN "" ELSE LowerChar(Head(str)) \o Lower(Tail(str))

StartsWithAt(str, i, sub) ==
    /\ i + Len(sub) - 1 <= Len(str)
    /\ SubSeq(str, i, i + Len(sub) - 1) = sub

RECURSIVE Find(_, _, _)
\* str.find(sub, i), counting from 1: the first position from i on where
\* sub starts, 0 when there is none
Find(str, sub, i) ==
    IF i + Len(sub) - 1 > Len(str) THEN 0
    ELSE IF SubSeq(str, i, i + Len(sub) - 1) = sub THEN i
    ELSE Find(str, sub, i + 1)

\* `sub in str`
Contains(str, sub) == Find(str, sub, 1) # 0

Min(a, b) == IF a < b THEN a ELSE b

RECURSIVE NatStr(_)
NatStr(i) == IF i < 10 THEN CharAt(DigitChars, i + 1)
             ELSE NatStr(i \div 10) \o CharAt(DigitChars, (i % 10) + 1)

\* str(i) of an int
IntStr(i) == IF i < 0 THEN "-" \o NatStr(-i) ELSE NatStr(i)

\* str(x) of a float held in tenths: 15 -> "1.5", 10 -> "1.0", -5 -> "-0.5"
FloatStr(i) ==
    LET a == IF i < 0 THEN -i ELSE i
    IN (IF i < 0 THEN "-" ELSE "") \o NatStr(a \div 10) \o "." \o NatStr(a % 10)

\* str(v) / f'{v}' of a scalar
Str(v) ==
    CASE v.t = "str"   -> v.s
      [] v.t = "int"   -> IntStr(v.n)
      [] v.t = "float" -> FloatStr(v.n)
      [] v.t = "bool"  -> IF v.n = 1 THEN "True" ELSE "False"
      [] v.t = "none"  -> "None"
      [] OTHER         -> "<" \o v.t \o ">"

(***************************************************************************)
(* Context (the session)                                                   *)
(***************************************************************************)
VARIABLES
    type,        \* Context.type, as stored
    token,       \* Context.token, as stored
    timeformat,  \* Context.timeformat, as stored
    unpack,      \* Context.unpack
    headers,     \* Session.headers: Authorization and Accept-Datetime-Format
    lastSet,     \* the last assignment: attribute, value, whether it raised
    prevConfig   \* the configuration before the last assignment

ctxVars == <<type, token, timeformat, unpack, headers>>
histVars == <<lastSet, prevConfig>>

\* one call of a resource method through moderate
VARIABLES
    pc,        \* "idle", "sent" (the transport has the request) or "done"
    call,      \* the call in progress: method, args and kwargs as passed
    nargs,     \* args after line 56
    nkwargs,   \* kwargs after line 60
    request,   \* the request the resource method handed to the transport
    response,  \* the response the transport returned
    outcome,   \* what the caller gets: a body, the envelope or an exception
    sends      \* the requests the call in progress has handed to the transport

callVars == <<pc, call, nargs, nkwargs, request, response, outcome, sends>>

\* APIError.clearpath applied to two paths
VARIABLES
    cpSegs,    \* the segments of a path; "{id}" stands for an identifier
    cpIdA,     \* the identifier of the first path
    cpIdB,     \* the identifier of the second path
    cpShownA,  \* clearpath of the first path
    cpShownB,  \* clearpath of the second path
    cpDone     \* whether clearpath has been applied

cpVars == <<cpSegs, cpIdA, cpIdB, cpShownA, cpShownB, cpDone>>

\* Context.url applied to an endpoint
VARIABLES
    urlCall    \* the last call of url: endpoint, type at the call, result

urlVars == <<urlCall>>

\* APIResponse.jsonlines: one iteration over the lines of a streamed body
VARIABLES
    jlBody,       \* the lines of the body, in the order the transport has them
    jlNative,     \* the nativetypes flag of the call
    jlHeartbeat,  \* the heartbeat flag of the call
    jlState,      \* "new", "suspended", "pending", "done", "failed", "abandoned"
    jlRead,       \* the number of lines read from the transport
    jlSkipped,    \* the number of heartbeat lines read and not yielded
    jlYielded,    \* the items delivered to the caller, in order
    jlExc         \* the exception that ended the iteration, "" for none

jlVars == <<jlBody, jlNative, jlHeartbeat, jlState, jlRead, jlSkipped, jlYielded, jlExc>>

\* APIResponse.json and AttributeDictionary applied to a JSON document
VARIABLES
    adValid,   \* whether the body is valid JSON
    adDoc,     \* the parsed JSON document (None when the body is not valid)
    adStage,   \* "new", "json", "wrapped" or "rewrapped"
    adNative,  \* the nativetypes flag of json()
    adObj,     \* the value of the first construction (or of json())
    adExc,     \* the exception of the first construction, "" for none
    adObj2,    \* the value of the construction from adObj
    adExc2     \* the exception of the construction from adObj, "" for none

adVars == <<adValid, adDoc, adStage, adNative, adObj, adExc, adObj2, adExc2>>

\* calls of resource methods in flight on one session, one per thread
VARIABLES
    par        \* per thread: position, call, locals of moderate, request,
               \* response and outcome

parVars == <<par>>

\* one AttributeDictionary under a sequence of operations
VARIABLES
    mdItems,   \* the keyed view: the items of the dict, in insertion order
    mdAttrs,   \* the member view: the instance's attribute dictionary
    mdAlias,   \* whether the attribute dictionary is the very object stored
               \* under the key '__dict__'
    mdLast,    \* the last operation: name, key and the exception it raised
    mdOps      \* the number of operations applied

mdVars == <<mdItems, mdAttrs, mdAlias, mdLast, mdOps>>

auxVars == <<urlVars, jlVars, adVars, parVars, mdVars>>

vars == <<ctxVars, histVars, callVars, cpVars, auxVars>>

Config == [type |-> type, token |-> token, timeformat |-> timeformat,
           unpack |-> unpack, headers |-> headers]

hostname == "https://{}.oanda.com/v3"

\* values a caller may assign to timeformat
TimeformatValues ==
    {PStr("UNIX"), PStr("RFC3339"), PStr("unix"), PStr("Rfc3339"),
     PStr("ISO8601"), PStr(""), PNone}
\* values a caller may assign to type
TypeValues ==
    {PStr("trade"), PStr("practice"), PStr("Practice"), PStr("TRADE"),
     PStr("live"), PNone}
TokenValues == {PStr("tokA"), PStr("tokB")}

\* value.upper() / value.lower() exist on str only
HasStrMethods(v) == v.t = "str"

\* the check of Context.__setattr__ for timeformat (lines 256-258)
TimeformatAccepted(v) ==
    /\ HasStrMethods(v)
    /\ Upper(v.s) \in {"UNIX", "RFC3339"}

\* a variant of TypeAccepted that accepts every str
TypeAcceptedAnyStr(v) == HasStrMethods(v)

\* the check of Context.__setattr__ for type (lines 260-261)
TypeAccepted(v) ==
    /\ HasStrMethods(v)
    /\ Lower(v.s) \in {"trade", "practice"}

NoSet == [name |-> "", value |-> PNone, raised |-> FALSE]

\* Context.__init__ (lines 234-243): type, token, unpack and timeformat are
\* assigned in this order through __setattr__, so construction succeeds only
\* with an accepted type and an accepted timeformat
ContextInit(tok, tf, ty, un) ==
    /\ TypeAccepted(ty)
    /\ TimeformatAccepted(tf)
    /\ type = ty
    /\ token = tok
    /\ unpack = un
    /\ timeformat = tf
    /\ headers = [Authorization |-> "Bearer " \o Str(tok),
                  AcceptDatetimeFormat |-> Upper(tf.s)]

\* a variant of SetToken that stores the token and leaves the header alone
SetTokenStaleHeader(value) ==
    /\ token' = value
    /\ lastSet' = [name |-> "token", value |-> value, raised |-> FALSE]
    /\ prevConfig' = Config
    /\ UNCHANGED <<type, timeformat, unpack, headers, callVars, cpVars, jlVars, adVars, urlVars, parVars, mdVars>>

\* Context.__setattr__('token', value), lines 254-255 and 262
SetToken(value) ==
    /\ headers' = [headers EXCEPT !.Authorization = "Bearer " \o Str(value)]
    /\ token' = value
    /\ lastSet' = [name |-> "token", value |-> value, raised |-> FALSE]
    /\ prevConfig' = Config
    /\ UNCHANGED <<type, timeformat, unpack, callVars, cpVars, jlVars, adVars, urlVars, parVars, mdVars>>

\* a variant of SetTimeformat that updates the header before it validates
SetTimeformatHeaderFirst(value) ==
    /\ prevConfig' = Config
    /\ headers' = IF HasStrMethods(value)
                  THEN [headers EXCEPT !.AcceptDatetimeFormat = Upper(value.s)]
                  ELSE headers
    /\ IF TimeformatAccepted(value)
       THEN /\ timeformat' = value
            /\ lastSet' = [name |-> "timeformat", value |-> value, raised |-> FALSE]
       ELSE /\ lastSet' = [name |-> "timeformat", value |-> value, raised |-> TRUE]
            /\ UNCHANGED timeformat
    /\ UNCHANGED <<type, token, unpack, callVars, cpVars, jlVars, adVars, urlVars, parVars, mdVars>>

\* Context.__setattr__('timeformat', value), lines 256-259 and 262
SetTimeformat(value) ==
    /\ prevConfig' = Config
    /\ IF TimeformatAccepted(value)
       THEN /\ headers' = [headers EXCEPT !.AcceptDatetimeFormat = Upper(value.s)]
            /\ timeformat' = value
            /\ lastSet' = [name |-> "timeformat", value |-> value, raised |-> FALSE]
       ELSE \* ValueError, or AttributeError when value has no upper()
            /\ lastSet' = [name |-> "timeformat", value |-> value, raised |-> TRUE]
            /\ UNCHANGED <<headers, timeformat>>
    /\ UNCHANGED <<type, token, unpack, callVars, cpVars, jlVars, adVars, urlVars, parVars, mdVars>>

\* Context.__setattr__('type', value), lines 260-262
SetType(value) ==
    /\ prevConfig' = Config
    /\ IF TypeAccepted(value)
       THEN /\ type' = value
            /\ lastSet' = [name |-> "type", value |-> value, raised |-> FALSE]
       ELSE \* ValueError, or AttributeError when value has no lower()
            /\ lastSet' = [name |-> "type", value |-> value, raised |-> TRUE]
            /\ UNCHANGED type
    /\ UNCHANGED <<token, timeformat, unpack, headers, callVars, cpVars, jlVars, adVars, urlVars, parVars, mdVars>>

\* Context.__setattr__('unpack', value), line 262
SetUnpack(value) ==
    /\ unpack' = value
    /\ lastSet' = [name |-> "unpack", value |-> PBool(value), raised |-> FALSE]
    /\ prevConfig' = Config
    /\ UNCHANGED <<type, token, timeformat, headers, callVars, cpVars, jlVars, adVars, urlVars, parVars, mdVars>>

\* Context.url(endpoint), lines 264-267: str.format fills the one '{}' of
\* hostname with the subdomain template, then its '{}' with self.type
Format1(template, arg) ==
    LET i == CHOOSE j \in 1..(Len(template) - 1) : SubSeq(template, j, j + 1) = "{}"
    IN SubSeq(template, 1, i - 1) \o arg \o SubSeq(template, i + 2, Len(template))

\* a variant of url that always takes the standard subdomain
urlStandardHost(endpoint) ==
    Format1(Format1(hostname, "api-fx{}"), Str(type)) \o endpoint

url(endpoint) ==
    Format1(Format1(hostname,
                    IF Contains(endpoint, "stream") THEN "stream-fx{}" ELSE "api-fx{}"),
            Str(type)) \o endpoint

NoUrlCall == [endpoint |-> "", type |-> PNone, result |-> ""]

\* endpoints a caller may resolve
Endpoints ==
    {"", "/accounts", "/accounts/001/orders", "/accounts/001/pricing/stream",
     "/accounts/001/transactions/stream", "/instruments/stream_1/candles",
     "/accounts/{}/orders", "/accounts/Stream"}

\* one call of Context.url(endpoint) on the session
ResolveUrl(endpoint) ==
    /\ urlCall' = [endpoint |-> endpoint, type |-> type, result |-> url(endpoint)]
    /\ UNCHANGED <<ctxVars, histVars, callVars, cpVars, jlVars, adVars, parVars, mdVars>>

(***************************************************************************)
(* dict operations (keys in insertion order)                               *)
(***************************************************************************)
EmptyDict == PDict(<<>>, <<>>)

DictHas(d, key) == \E i \in 1..Len(d.k) : d.k[i] = key
DictIndex(d, key) == CHOOSE i \in 1..Len(d.k) : d.k[i] = key
DictGet(d, key) == d.l[DictIndex(d, key)]

RemoveAt(seq, i) == SubSeq(seq, 1, i - 1) \o SubSeq(seq, i + 1, Len(seq))

\* d without key (the first half of d.pop(key))
DictDel(d, key) ==
    LET i == DictIndex(d, key)
    IN [d EXCEPT !.k = RemoveAt(d.k, i), !.l = RemoveAt(d.l, i)]

\* d[key] = value: in place for an existing key, appended otherwise
DictSet(d, key, value) ==
    IF DictHas(d, key)
    THEN [d EXCEPT !.l[DictIndex(d, key)] = value]
    ELSE [d EXCEPT !.k = Append(d.k, key), !.l = Append(d.l, value)]

RECURSIVE DictUpdate(_, _)
\* dict(d, **other)
DictUpdate(d, other) ==
    IF Len(other.k) = 0 THEN d
    ELSE DictUpdate(DictSet(d, other.k[1], other.l[1]),
                    [other EXCEPT !.k = Tail(other.k), !.l = Tail(other.l)])

\* a tuple of positional arguments as a value (*args inside a method)
PTuple(items) == [t |-> "tuple", n |-> 0, s |-> "", k |-> <<>>, l |-> items]

(***************************************************************************)
(* moderate, lines 50-60: argument normalization                           *)
(***************************************************************************)
\* a variant of RenameKey that reads the old key without removing it
RenameKeyKeepOld(kwargs, old, new) ==
    IF DictHas(kwargs, old)
    THEN DictSet(kwargs, new, DictGet(kwargs, old))
    ELSE kwargs

\* lines 50-51 and 52-53: kwargs[new] = kwargs.pop(old)
RenameKey(kwargs, old, new) ==
    IF DictHas(kwargs, old)
    THEN DictSet(DictDel(kwargs, old), new, DictGet(kwargs, old))
    ELSE kwargs

RenameAliases(kwargs) == RenameKey(RenameKey(kwargs, "since", "from"), "until", "to")

\* a variant of Stringify that converts int only, not float
StringifyIntOnly(item) == IF item.t \in {"int", "bool"} THEN PStr(Str(item)) ELSE item

\* str(item) if isinstance(item, (int, float)) else item
Stringify(item) == IF IsIntOrFloat(item) THEN PStr(Str(item)) ELSE item

\* lines 54-56
NormArgs(args) == [i \in 1..Len(args) |-> Stringify(args[i])]

\* lines 57-60, after the renaming of lines 50-53
NormKwargs(kwargs) ==
    LET r == RenameAliases(kwargs)
    IN [r EXCEPT !.l = [i \in 1..Len(r.l) |-> Stringify(r.l[i])]]

(***************************************************************************)
(* Resource methods: signatures and the binding of a call's arguments      *)
(***************************************************************************)
Methods ==
    {"Account.accounts", "Account.changes", "Instrument.candles",
     "Order.create", "Order.details", "Trade.close", "Transaction.idrange",
     "Transaction.stream", "Pricing.pricing", "Pricing.stream",
     "Order.extensions", "Trade.extensions"}

\* the methods that pass stream=True to the transport
StreamMethods == {"Transaction.stream", "Pricing.stream"}

\* pos: positional parameters after self; defaults: the parameters that have
\* a default (positional or keyword-only); varargs: *args; kwonly: the
\* keyword-only parameters; varkw: **kwargs
Sig(pos, defaults, varargs, kwonly, varkw) ==
    [pos |-> pos, defaults |-> defaults, varargs |-> varargs,
     kwonly |-> kwonly, varkw |-> varkw]

Signature(m) ==
    CASE m = "Account.accounts"    -> Sig(<<>>, EmptyDict, FALSE, {}, FALSE)
      [] m = "Account.changes"     -> Sig(<<"accountID", "transactionID">>, EmptyDict, FALSE, {}, FALSE)
      [] m = "Instrument.candles"  -> Sig(<<"instrument">>, EmptyDict, FALSE, {}, TRUE)
      [] m = "Order.create"        -> Sig(<<"accountID">>, EmptyDict, FALSE, {}, TRUE)
      [] m = "Order.details"       -> Sig(<<"accountID", "orderSpecifier">>, EmptyDict, FALSE, {}, FALSE)
      [] m = "Trade.close"         -> Sig(<<"accountID", "tradeSpecifier", "units">>,
                                          PDict(<<"units">>, <<PStr("ALL")>>), FALSE, {}, FALSE)
      [] m = "Transaction.idrange" -> Sig(<<"accountID", "since", "until">>, EmptyDict, TRUE, {}, FALSE)
      [] m = "Transaction.stream"  -> Sig(<<"accountID">>, EmptyDict, FALSE, {}, FALSE)
      [] m = "Pricing.pricing"     -> Sig(<<"accountID">>, PDict(<<"since">>, <<PNone>>), TRUE, {"since"}, TRUE)
      [] m = "Pricing.stream"      -> Sig(<<"accountID">>, PDict(<<"snapshot">>, <<PBool(TRUE)>>), TRUE, {"snapshot"}, FALSE)
      [] m = "Order.extensions"    -> Sig(<<"accountID", "orderSpecifier">>, EmptyDict, FALSE, {}, TRUE)
      [] m = "Trade.extensions"    -> Sig(<<"accountID", "tradeSpecifier">>, EmptyDict, FALSE, {}, TRUE)

SeqToSet(seq) == {seq[i] : i \in 1..Len(seq)}

\* Python's binding of wrapped(*args, **kwargs) to a signature.  A call
\* raises TypeError when it has too many positional arguments, a keyword
\* that names a parameter already bound positionally, a keyword that names
\* no parameter of a method without **kwargs, or a parameter left unbound
\* that has no default.
BindError(sig, args, kwargs) ==
    LET np == Len(sig.pos)
        byPos == {sig.pos[i] : i \in 1..Min(np, Len(args))}
        named == SeqToSet(sig.pos) \cup sig.kwonly
        keys == SeqToSet(kwargs.k)
    IN \/ Len(args) > np /\ ~sig.varargs
       \/ keys \cap byPos # {}
       \/ ~sig.varkw /\ ~(keys \subseteq named)
       \/ \E p \in named : /\ p \notin byPos
                           /\ p \notin keys
                           /\ ~DictHas(sig.defaults, p)

\* the value bound to parameter p
BoundParam(sig, args, kwargs, p) ==
    IF \E i \in 1..Min(Len(sig.pos), Len(args)) : sig.pos[i] = p
    THEN args[CHOOSE i \in 1..Len(sig.pos) : sig.pos[i] = p]
    ELSE IF DictHas(kwargs, p) THEN DictGet(kwargs, p)
    ELSE DictGet(sig.defaults, p)

\* *args: the positional arguments beyond the named ones
BoundStar(sig, args) ==
    IF Len(args) > Len(sig.pos) THEN SubSeq(args, Len(sig.pos) + 1, Len(args)) ELSE <<>>

RECURSIVE DictWithout(_, _)
DictWithout(d, keys) ==
    IF \E i \in 1..Len(d.k) : d.k[i] \in keys
    THEN DictWithout(DictDel(d, d.k[CHOOSE i \in 1..Len(d.k) : d.k[i] \in keys]), keys)
    ELSE d

\* **kwargs: the keywords that name no parameter
BoundKw(sig, kwargs) == DictWithout(kwargs, SeqToSet(sig.pos) \cup sig.kwonly)

(***************************************************************************)
(* The request each resource method hands to the transport                 *)
(***************************************************************************)
NoRequest == [verb |-> "", url |-> "", params |-> PNone, json |-> PNone, stream |-> FALSE]

Req(verb, u, params, json, stream) ==
    [verb |-> verb, url |-> u, params |-> params, json |-> json, stream |-> stream]

\* the exception of Context.url(endpoint) on an endpoint that may be any
\* value, "" for none: 'stream' in endpoint is a membership test on a tuple,
\* and str + endpoint (line 267) takes a str only
UrlExc(endpoint) == IF endpoint.t = "str" THEN "" ELSE "TypeError"

\* the exception the body of resource method m raises before it reaches the
\* transport, "" for none.  Order.extensions (lines 635-640) and
\* Trade.extensions (lines 760-765) pass url a tuple of the two halves of
\* the endpoint.
MethodExc(m, args, kwargs) ==
    LET sig == Signature(m)
        F(p) == Str(BoundParam(sig, args, kwargs, p))
    IN CASE m = "Order.extensions" ->
              UrlExc(PTuple(<<PStr("/accounts/" \o F("accountID") \o "/orders/"),
                              PStr(F("orderSpecifier") \o "/clientExtensions")>>))
         [] m = "Trade.extensions" ->
              UrlExc(PTuple(<<PStr("/accounts/" \o F("accountID") \o "/trades/"),
                              PStr(F("tradeSpecifier") \o "/clientExtensions")>>))
         [] OTHER -> ""

\* the body of resource method m, run with self = the context (setcontext,
\* line 28) on arguments that bind to its signature
MethodRequest(m, args, kwargs) ==
    LET sig == Signature(m)
        P(p) == BoundParam(sig, args, kwargs, p)
        F(p) == Str(P(p))                         \* f'{p}'
        star == PTuple(BoundStar(sig, args))
        kw == BoundKw(sig, kwargs)
    IN CASE m = "Account.accounts" ->
              Req("GET", url("/accounts"), PNone, PNone, FALSE)
         [] m = "Account.changes" ->
              Req("GET", url("/accounts/" \o F("accountID") \o "/changes"),
                  PDict(<<"sinceTransactionID">>, <<P("transactionID")>>), PNone, FALSE)
         [] m = "Instrument.candles" ->
              Req("GET", url("/instruments/" \o F("instrument") \o "/candles"),
                  kw, PNone, FALSE)
         [] m = "Order.create" ->
              Req("POST", url("/accounts/" \o F("accountID") \o "/orders"),
                  PNone, PDict(<<"order">>, <<kw>>), FALSE)
         [] m = "Order.details" ->
              Req("GET", url("/accounts/" \o F("accountID") \o "/orders/" \o F("orderSpecifier")),
                  PNone, PNone, FALSE)
         [] m = "Trade.close" ->
              Req("PUT", url("/accounts/" \o F("accountID") \o "/trades/"
                             \o F("tradeSpecifier") \o "/close"),
                  PNone, PDict(<<"units">>, <<P("units")>>), FALSE)
         [] m = "Transaction.idrange" ->
              Req("GET", url("/accounts/" \o F("accountID") \o "/transactions/idrange"),
                  PDict(<<"from", "to", "type">>, <<P("since"), P("until"), star>>),
                  PNone, FALSE)
         [] m = "Transaction.stream" ->
              Req("GET", url("/accounts/" \o F("accountID") \o "/transactions/stream"),
                  PNone, PNone, TRUE)
         [] m = "Pricing.pricing" ->
              Req("GET", url("/accounts/" \o F("accountID") \o "/pricing"),
                  DictUpdate(PDict(<<"instruments", "since">>, <<star, P("since")>>), kw),
                  PNone, FALSE)
         [] m = "Pricing.stream" ->
              Req("GET", url("/accounts/" \o F("accountID") \o "/pricing/stream"),
                  PDict(<<"instruments", "snapshot">>, <<star, P("snapshot")>>),
                  PNone, TRUE)

(***************************************************************************)
(* The transport: the URL of the prepared request and the responses        *)
(***************************************************************************)
\* the values one query parameter contributes: a list or tuple contributes
\* each item, any other value itself, and None contributes nothing
ParamItems(v) ==
    LET items == IF v.t \in {"list", "tuple"} THEN v.l ELSE <<v>>
    IN SelectSeq(items, LAMBDA x : x.t # "none")

RECURSIVE QueryPairs(_)
\* "k=v" for every value of every parameter, in order
QueryPairs(params) ==
    IF params.t = "none" \/ Len(params.k) = 0 THEN <<>>
    ELSE LET items == ParamItems(params.l[1])
         IN [i \in 1..Len(items) |-> params.k[1] \o "=" \o Str(items[i])]
            \o QueryPairs([params EXCEPT !.k = Tail(params.k), !.l = Tail(params.l)])

RECURSIVE Join(_, _)
Join(strs, sep) ==
    IF Len(strs) = 0 THEN ""
    ELSE IF Len(strs) = 1 THEN strs[1]
    ELSE strs[1] \o sep \o Join(Tail(strs), sep)

\* the URL of the request as sent: the method's URL and the query string
PreparedUrl(req) ==
    LET q == QueryPairs(req.params)
    IN IF Len(q) = 0 THEN req.url ELSE req.url \o "?" \o Join(q, "&")

\* the final URL of a response that followed a redirect
RedirectUrl == "https://api-fxpractice.oanda.com/v3/moved"

Statuses == {200, 201, 204, 404}

Reason(status) ==
    CASE status = 200 -> "OK"
      [] status = 201 -> "Created"
      [] status = 204 -> "No Content"
      [] status = 404 -> "Not Found"

\* response bodies: the raw text, whether json.loads accepts it, and the
\* value json.loads returns
Body(text, valid, val) == [text |-> text, valid |-> valid, val |-> val]

BodyError    == Body("{\"errorMessage\": \"boom\"}", TRUE,
                     PDict(<<"errorMessage">>, <<PStr("boom")>>))
BodyReserved == Body("{\"errorMessage\": \"bad\", \"items\": []}", TRUE,
                     PDict(<<"errorMessage", "items">>, <<PStr("bad"), PList(<<>>)>>))
BodyNested   == Body("{\"account\": {\"id\": \"001\"}, \"orders\": [{\"id\": \"7\"}, 1]}", TRUE,
                     PDict(<<"account", "orders">>,
                           <<PDict(<<"id">>, <<PStr("001")>>),
                             PList(<<PDict(<<"id">>, <<PStr("7")>>), PInt(1)>>)>>))
BodyHtml     == Body("<html>", FALSE, PNone)

Bodies == {BodyError, BodyReserved, BodyNested, BodyHtml}

NoResponse == [status_code |-> 0, url |-> "", body |-> BodyHtml, reason |-> "",
               method |-> "", redirected |-> FALSE]

(***************************************************************************)
(* AttributeDictionary, lines 1090-1150                                    *)
(***************************************************************************)
\* set(dir(dict)): the names of the dict type (line 1126)
DictDir ==
    {"clear", "copy", "fromkeys", "get", "items", "keys", "pop", "popitem",
     "setdefault", "update", "values",
     "__class__", "__contains__", "__delattr__", "__delitem__", "__dir__",
     "__doc__", "__eq__", "__format__", "__ge__", "__getattribute__",
     "__getitem__", "__gt__", "__hash__", "__init__", "__init_subclass__",
     "__iter__", "__le__", "__len__", "__lt__", "__ne__", "__new__",
     "__reduce__", "__reduce_ex__", "__repr__", "__setattr__", "__setitem__",
     "__sizeof__", "__str__", "__subclasshook__"}

IdentStart == LowerAlpha \o UpperAlpha \o "_"
IdentPart  == IdentStart \o DigitChars

\* str.isidentifier() on ASCII text (line 1128)
IsIdentifier(str) ==
    /\ Len(str) > 0
    /\ CharIn(CharAt(str, 1), IdentStart)
    /\ \A i \in 2..Len(str) : CharIn(CharAt(str, i), IdentPart)

\* the items iterating over v yields (dict(...) iterates each element of a
\* sequence to get a key and a value)
IterItems(v) ==
    CASE v.t \in {"list", "tuple"} -> v.l
      [] IsInstanceDict(v)         -> [i \in 1..Len(v.k) |-> PStr(v.k[i])]
      [] v.t = "str"               -> [i \in 1..Len(v.s) |-> PStr(CharAt(v.s, i))]
      [] OTHER                     -> <<>>

IsIterable(v) == v.t \in {"list", "tuple", "dict", "adict", "str"}
IsHashable(v) == v.t \notin {"list", "dict", "adict"}

\* the exception of dict(v) in super().__init__ (line 1121), "" for none
DictInitExc(v) ==
    IF IsInstanceDict(v) THEN ""
    ELSE IF ~IsIterable(v) THEN "TypeError"
    ELSE LET items == IterItems(v)
             bad(e) == ~IsIterable(e) \/ Len(IterItems(e)) # 2
                       \/ ~IsHashable(IterItems(e)[1])
         IN IF \E i \in 1..Len(items) : bad(items[i])
            THEN LET e == items[CHOOSE i \in 1..Len(items) :
                                  /\ bad(items[i])
                                  /\ \A j \in 1..(i - 1) : ~bad(items[j])]
                 IN IF IsIterable(e) /\ Len(IterItems(e)) # 2 THEN "ValueError"
                    ELSE "TypeError"
            ELSE ""

\* whether dict(v) has a key that is not a str (key.isidentifier() then
\* raises AttributeError at line 1128)
DictInitOddKey(v) ==
    /\ ~IsInstanceDict(v)
    /\ \E i \in 1..Len(IterItems(v)) : IterItems(IterItems(v)[i])[1].t # "str"

RECURSIVE PairsToDict(_, _)
PairsToDict(d, pairs) ==
    IF Len(pairs) = 0 THEN d
    ELSE PairsToDict(DictSet(d, IterItems(pairs[1])[1].s, IterItems(pairs[1])[2]),
                     Tail(pairs))

\* the content of dict(v) when it raises nothing and every key is a str
DictInitVal(v) ==
    IF IsInstanceDict(v) THEN PDict(v.k, v.l)
    ELSE PairsToDict(EmptyDict, IterItems(v))

\* the first exception of a sequence of outcomes, "" when there is none
FirstExc(excs) ==
    IF \E i \in 1..Len(excs) : excs[i] # ""
    THEN excs[CHOOSE i \in 1..Len(excs) :
                /\ excs[i] # ""
                /\ \A j \in 1..(i - 1) : excs[j] = ""]
    ELSE ""

\* the checks of __setitem__ on the key (lines 1126-1129)
KeyRejected(key) == key \in DictDir \/ ~IsIdentifier(key)

RECURSIVE AttributeDictionaryExc(_)
RECURSIVE AttributeDictionary(_)

\* the exception of the wrapping of value in __setitem__ (lines 1130-1138)
WrapExc(value) ==
    IF IsInstanceDict(value) THEN AttributeDictionaryExc(value)
    ELSE IF value.t = "list"
         THEN FirstExc([i \in 1..Len(value.l) |->
                          IF value.l[i].t = "dict"
                          THEN AttributeDictionaryExc(value.l[i]) ELSE ""])
    ELSE ""

\* a variant of SetItemExc that does not look into the elements of a list
SetItemExcNoLists(key, value) ==
    IF KeyRejected(key) THEN "AttributeError"
    ELSE IF IsInstanceDict(value) /\ AttributeDictionaryExc(value) # ""
    THEN AttributeDictionaryExc(value)
    ELSE IF key = "__dict__" /\ ~IsInstanceDict(value) THEN "TypeError"
    ELSE ""

\* the exception __setitem__(key, value) raises, "" for none (lines 1125-1140):
\* of the key checks, of the wrapping, or of object.__setattr__ (line 1140),
\* which takes nothing but a dict for the instance attribute '__dict__'
SetItemExc(key, value) ==
    IF KeyRejected(key) THEN "AttributeError"
    ELSE IF WrapExc(value) # "" THEN WrapExc(value)
    ELSE IF key = "__dict__" /\ ~IsInstanceDict(value) THEN "TypeError"
    ELSE ""

\* a variant of SetItemVal that also wraps the mappings of a list inside the
\* list
SetItemValDeep(value) ==
    LET wrap(e) == IF e.t = "dict" THEN AttributeDictionary(e) ELSE e
    IN IF IsInstanceDict(value) THEN AttributeDictionary(value)
       ELSE IF value.t = "list"
            THEN PList([i \in 1..Len(value.l) |->
                          IF value.l[i].t = "list"
                          THEN PList([j \in 1..Len(value.l[i].l) |-> wrap(value.l[i].l[j])])
                          ELSE wrap(value.l[i])])
       ELSE value

\* a variant of SetItemVal that copies an already wrapped mapping into a
\* plain dict
SetItemValCopy(value) ==
    IF value.t = "dict" THEN AttributeDictionary(value)
    ELSE IF value.t = "adict" THEN PDict(value.k, value.l)
    ELSE IF value.t = "list"
         THEN PList([i \in 1..Len(value.l) |->
                       IF value.l[i].t = "dict"
                       THEN AttributeDictionary(value.l[i]) ELSE value.l[i]])
    ELSE value

\* the value __setitem__ stores for value (lines 1130-1138): a mapping is
\* wrapped, and so is every element of a list whose type is exactly dict
SetItemVal(value) ==
    IF IsInstanceDict(value) THEN AttributeDictionary(value)
    ELSE IF value.t = "list"
         THEN PList([i \in 1..Len(value.l) |->
                       IF value.l[i].t = "dict"
                       THEN AttributeDictionary(value.l[i]) ELSE value.l[i]])
    ELSE value

\* the exception AttributeDictionary(v) raises, "" for none (lines 1120-1123)
AttributeDictionaryExc(v) ==
    IF DictInitExc(v) # "" THEN DictInitExc(v)
    ELSE IF DictInitOddKey(v) THEN "AttributeError"
    ELSE LET d == DictInitVal(v)
         IN FirstExc([i \in 1..Len(d.k) |-> SetItemExc(d.k[i], d.l[i])])

RECURSIVE RawStore(_, _, _, _)
\* object.__setattr__ of the keys from position i on into the dict w that
\* serves as the instance's __dict__ (line 1140); it stores into w as into a
\* plain dict, without w's own __setitem__
RawStore(w, ks, vs, i) ==
    IF i > Len(ks) THEN w
    ELSE RawStore(DictSet(w, ks[i], vs[i]), ks, vs, i + 1)

\* AttributeDictionary(v) when it raises nothing: every value is replaced by
\* what __setitem__ stores, in the order of the keys.  Line 1140 makes the
\* value stored under the key '__dict__' the instance's attribute
\* dictionary, so the keys set after it are stored into that value too.
AttributeDictionary(v) ==
    LET d == DictInitVal(v)
        stored == [i \in 1..Len(d.k) |-> SetItemVal(d.l[i])]
    IN IF DictHas(d, "__dict__")
       THEN LET j == DictIndex(d, "__dict__")
            IN ADict(d.k, [stored EXCEPT ![j] = RawStore(stored[j], d.k, stored, j + 1)])
       ELSE ADict(d.k, stored)

NoAttr == [t |-> "noattr", n |-> 0, s |-> "", k |-> <<>>, l |-> <<>>]

\* the instance attribute dictionary of a constructed AttributeDictionary:
\* its own items as set by line 1140, or the value stored under '__dict__'
InstanceDict(obj) ==
    IF DictHas(obj, "__dict__") THEN DictGet(obj, "__dict__") ELSE obj

\* obj.name on a constructed AttributeDictionary, for a name that is not a
\* name of dict: the instance attribute, NoAttr for AttributeError
GetAttr(obj, name) ==
    IF obj.t # "adict" THEN NoAttr
    ELSE IF name = "__dict__" /\ DictHas(obj, "__dict__") THEN DictGet(obj, "__dict__")
    ELSE IF DictHas(InstanceDict(obj), name) THEN DictGet(InstanceDict(obj), name)
    ELSE NoAttr

RECURSIVE PyEq(_, _)
\* Python's ==, under which a dict and a dict subclass with equal items are
\* equal (the order of the keys does not matter)
PyEq(a, b) ==
    IF IsInstanceDict(a) /\ IsInstanceDict(b)
    THEN /\ SeqToSet(a.k) = SeqToSet(b.k)
         /\ \A key \in SeqToSet(a.k) : PyEq(DictGet(a, key), DictGet(b, key))
    ELSE IF a.t = "list" /\ b.t = "list"
    THEN /\ Len(a.l) = Len(b.l)
         /\ \A i \in 1..Len(a.l) : PyEq(a.l[i], b.l[i])
    ELSE a = b

(***************************************************************************)
(* APIResponse.json, lines 82-108                                          *)
(***************************************************************************)
\* the exception json(nativetypes) raises on a body, "" for none
APIResponseJsonExc(body, nativetypes) ==
    IF ~body.valid THEN "JSONDecodeError"               \* line 107
    ELSE IF nativetypes THEN ""
    ELSE AttributeDictionaryExc(body.val)               \* line 108

\* the value json(nativetypes) returns when it raises nothing
APIResponseJson(body, nativetypes) ==
    IF nativetypes THEN body.val ELSE AttributeDictionary(body.val)

\* the exception response.json() raises, "" for none
JsonExc(resp) == APIResponseJsonExc(resp.body, FALSE)

\* the value response.json() returns when it raises nothing
JsonVal(resp) == APIResponseJson(resp.body, FALSE)

(***************************************************************************)
(* json() and AttributeDictionary applied to JSON documents                *)
(***************************************************************************)
\* the most keys of a generated mapping
MaxKeys == 2
DocKeys == {"a", "b", "values", "1x", "__dict__"}
DocVals ==
    {PInt(1), PStr("x"),
     PDict(<<"c">>, <<PInt(2)>>),
     PDict(<<"items">>, <<PInt(1)>>),
     PList(<<PDict(<<"c">>, <<PInt(2)>>), PInt(3)>>),
     PList(<<PDict(<<"c", "1x">>, <<PInt(2), PInt(3)>>)>>),
     PList(<<PList(<<PDict(<<"items">>, <<PInt(1)>>)>>)>>)}

\* the sequences of distinct keys
KeySeqs ==
    UNION {{ks \in [1..n -> DocKeys] : \A i, j \in 1..n : i # j => ks[i] # ks[j]} :
           n \in 0..MaxKeys}

\* JSON mappings
DocMaps == UNION {{PDict(ks, vs) : vs \in [1..Len(ks) -> DocVals]} : ks \in KeySeqs}

\* JSON documents whose top-level value is a list
DocLists ==
    {PList(<<>>),
     PList(<<PDict(<<"a">>, <<PInt(1)>>)>>),
     PList(<<PDict(<<"a", "b">>, <<PInt(1), PInt(2)>>)>>),
     PList(<<PDict(<<"a">>, <<PInt(1)>>), PDict(<<"b">>, <<PInt(2)>>)>>),
     PList(<<PList(<<PStr("a"), PInt(1)>>)>>)}

Docs == DocMaps \cup DocLists

\* response.json(nativetypes) on the body
Json(nativetypes) ==
    /\ adStage = "new"
    /\ LET body == [valid |-> adValid, val |-> adDoc]
           exc == APIResponseJsonExc(body, nativetypes)
       IN /\ adExc' = exc
          /\ adObj' = IF exc = "" THEN APIResponseJson(body, nativetypes) ELSE PNone
    /\ adNative' = nativetypes
    /\ adStage' = "json"
    /\ UNCHANGED <<adValid, adDoc, adObj2, adExc2>>
    /\ UNCHANGED <<ctxVars, histVars, callVars, cpVars, urlVars, jlVars, parVars, mdVars>>

\* AttributeDictionary(document)
Construct ==
    /\ adStage = "new"
    /\ adValid
    /\ adExc' = AttributeDictionaryExc(adDoc)
    /\ adObj' = IF AttributeDictionaryExc(adDoc) = "" THEN AttributeDictionary(adDoc) ELSE PNone
    /\ adStage' = "wrapped"
    /\ UNCHANGED <<adValid, adDoc, adNative, adObj2, adExc2>>
    /\ UNCHANGED <<ctxVars, histVars, callVars, cpVars, urlVars, jlVars, parVars, mdVars>>

\* AttributeDictionary(obj) on the result obj of a construction
Reconstruct ==
    /\ adStage = "wrapped" \/ (adStage = "json" /\ ~adNative)
    /\ adExc = ""
    /\ adExc2' = AttributeDictionaryExc(adObj)
    /\ adObj2' = IF AttributeDictionaryExc(adObj) = "" THEN AttributeDictionary(adObj) ELSE PNone
    /\ adStage' = "rewrapped"
    /\ UNCHANGED <<adValid, adDoc, adNative, adObj, adExc>>
    /\ UNCHANGED <<ctxVars, histVars, callVars, cpVars, urlVars, jlVars, parVars, mdVars>>

(***************************************************************************)
(* AttributeDictionary under operations, lines 1125-1150, and under the    *)
(* mutators it inherits from dict.  An object is the record of its keyed   *)
(* view (items), its member view (attrs, the instance attribute            *)
(* dictionary) and alias: whether the attribute dictionary is the object   *)
(* stored under the key '__dict__', which line 1140 brings about.          *)
(***************************************************************************)
Obj(items, attrs, alias, exc) ==
    [items |-> items, attrs |-> attrs, alias |-> alias, exc |-> exc]

\* object.__setattr__(self, key, value) for a key other than '__dict__'
\* (line 1140): into the attribute dictionary, which under alias is the value
\* the items hold under '__dict__'
StoreAttr(o, key, value) ==
    IF o.alias
    THEN [o EXCEPT !.attrs = DictSet(o.attrs, key, value),
                   !.items = DictSet(o.items, "__dict__",
                                     DictSet(DictGet(o.items, "__dict__"), key, value))]
    ELSE [o EXCEPT !.attrs = DictSet(o.attrs, key, value)]

\* a variant of ObjSetItem that stores the item before it checks the key
ObjSetItemStoreFirst(o, key, value) ==
    IF KeyRejected(key)
    THEN [o EXCEPT !.items = DictSet(o.items, key, value), !.exc = "AttributeError"]
    ELSE IF WrapExc(value) # "" THEN [o EXCEPT !.exc = WrapExc(value)]
    ELSE IF key = "__dict__"
    THEN IF IsInstanceDict(value)
         THEN Obj(DictSet(o.items, key, SetItemVal(value)),
                  PDict(SetItemVal(value).k, SetItemVal(value).l), TRUE, "")
         ELSE Obj(DictSet(o.items, key, SetItemVal(value)), o.attrs, FALSE, "TypeError")
    ELSE StoreAttr([o EXCEPT !.items = DictSet(o.items, key, SetItemVal(value)),
                             !.exc = ""], key, SetItemVal(value))

\* __setitem__(key, value), lines 1125-1140: the checks of the key, the
\* wrapping of the value, dict's own __setitem__ (line 1139) and
\* object.__setattr__ (line 1140), which for the key '__dict__' replaces the
\* attribute dictionary by the stored value or raises TypeError
ObjSetItem(o, key, value) ==
    IF KeyRejected(key) THEN [o EXCEPT !.exc = "AttributeError"]
    ELSE IF WrapExc(value) # "" THEN [o EXCEPT !.exc = WrapExc(value)]
    ELSE IF key = "__dict__"
    THEN IF IsInstanceDict(value)
         THEN Obj(DictSet(o.items, key, SetItemVal(value)),
                  PDict(SetItemVal(value).k, SetItemVal(value).l), TRUE, "")
         ELSE Obj(DictSet(o.items, key, SetItemVal(value)), o.attrs, FALSE, "TypeError")
    ELSE StoreAttr([o EXCEPT !.items = DictSet(o.items, key, SetItemVal(value)),
                             !.exc = ""], key, SetItemVal(value))

\* __delitem__(key), lines 1142-1144: dict's own __delitem__ (KeyError for an
\* absent key), then object.__delattr__, which raises AttributeError for a
\* name the attribute dictionary does not have and for '__dict__' leaves
\* the instance with an empty attribute dictionary
ObjDelItem(o, key) ==
    IF ~DictHas(o.items, key) THEN [o EXCEPT !.exc = "KeyError"]
    ELSE IF key = "__dict__"
    THEN Obj(DictDel(o.items, key), EmptyDict, FALSE, "")
    ELSE IF ~DictHas(o.attrs, key)
    THEN [o EXCEPT !.items = DictDel(o.items, key), !.exc = "AttributeError"]
    ELSE IF o.alias
    THEN Obj(DictSet(DictDel(o.items, key), "__dict__",
                     DictDel(DictGet(o.items, "__dict__"), key)),
             DictDel(o.attrs, key), TRUE, "")
    ELSE Obj(DictDel(o.items, key), DictDel(o.attrs, key), FALSE, "")

\* dict.pop(key), inherited: the item goes, the attribute dictionary stays
ObjPop(o, key) ==
    IF ~DictHas(o.items, key) THEN [o EXCEPT !.exc = "KeyError"]
    ELSE Obj(DictDel(o.items, key), o.attrs, o.alias /\ key # "__dict__", "")

\* dict.popitem(), inherited: the last item goes
ObjPopItem(o) ==
    IF Len(o.items.k) = 0 THEN [o EXCEPT !.exc = "KeyError"]
    ELSE ObjPop(o, o.items.k[Len(o.items.k)])

\* dict.clear(), inherited
ObjClear(o) == Obj(ADict(<<>>, <<>>), o.attrs, FALSE, "")

\* dict.update(other), inherited: the items of other as they are, without
\* __setitem__
ObjUpdate(o, other) ==
    Obj(RawStore(o.items, other.k, other.l, 1), o.attrs,
        o.alias /\ ~DictHas(other, "__dict__"), "")

\* dict.setdefault(key, default), inherited
ObjSetDefault(o, key, default) ==
    IF DictHas(o.items, key) THEN [o EXCEPT !.exc = ""]
    ELSE Obj(DictSet(o.items, key, default), o.attrs, o.alias, "")

\* obj.name: the instance attribute, the attribute dictionary itself for
\* '__dict__', an attribute of dict for one of dict's names, NoAttr for
\* AttributeError
ObjGetAttr(o, name) ==
    IF name = "__dict__"
    THEN IF o.alias THEN DictGet(o.items, "__dict__") ELSE o.attrs
    ELSE IF name \in DictDir THEN [NoAttr EXCEPT !.t = "method", !.s = name]
    ELSE IF DictHas(o.attrs, name) THEN DictGet(o.attrs, name)
    ELSE NoAttr

MaxOps == 3

\* keys and names of the operations
MutKeys == {"a", "items", "1x", "__dict__"}

\* values of the assignments
MutVals ==
    {PInt(1),
     PDict(<<"c">>, <<PInt(2)>>),
     PDict(<<"items">>, <<PInt(1)>>),
     PList(<<PDict(<<"c">>, <<PInt(2)>>), PInt(3), ADict(<<"c">>, <<PInt(2)>>),
             PList(<<PDict(<<"c">>, <<PInt(2)>>)>>)>>),
     PList(<<PDict(<<"1x">>, <<PInt(1)>>)>>)}

\* arguments of update
MutUpdates ==
    {PDict(<<"a">>, <<PDict(<<"c">>, <<PInt(2)>>)>>),
     PDict(<<"items", "a">>, <<PInt(1), PInt(1)>>)}

\* documents the object is constructed from
MutDocs == {EmptyDict, PDict(<<"a">>, <<PDict(<<"c">>, <<PInt(2)>>)>>)}

TheObj == Obj(mdItems, mdAttrs, mdAlias, "")

\* one operation on the object: res is what it leaves
Apply(op, key, value, res) ==
    /\ mdOps < MaxOps
    /\ mdItems' = res.items
    /\ mdAttrs' = res.attrs
    /\ mdAlias' = res.alias
    /\ mdLast' = [op |-> op, key |-> key, value |-> value, exc |-> res.exc]
    /\ mdOps' = mdOps + 1
    /\ UNCHANGED <<ctxVars, histVars, callVars, cpVars, urlVars, jlVars, adVars, parVars>>

\* obj[key] = value
SetItem(key, value) == Apply("setitem", key, value, ObjSetItem(TheObj, key, value))
\* del obj[key]
DelItem(key) == Apply("delitem", key, PNone, ObjDelItem(TheObj, key))
\* obj.name = value (lines 1146-1147)
SetAttr(name, value) == Apply("setattr", name, value, ObjSetItem(TheObj, name, value))
\* del obj.name (lines 1149-1150)
DelAttr(name) == Apply("delattr", name, PNone, ObjDelItem(TheObj, name))
\* the mutators inherited from dict
Pop(key) == Apply("pop", key, PNone, ObjPop(TheObj, key))
PopItem == Apply("popitem", "", PNone, ObjPopItem(TheObj))
Clear == Apply("clear", "", PNone, ObjClear(TheObj))
Update(other) == Apply("update", "", other, ObjUpdate(TheObj, other))
SetDefault(key, default) ==
    Apply("setdefault", key, default, ObjSetDefault(TheObj, key, default))

(***************************************************************************)
(* APIResponse.jsonlines, lines 110-130                                    *)
(***************************************************************************)
\* the lines of a streamed body; a line is a Body: its text, whether
\* json.loads accepts it, and the parsed value
LinePrice    == Body("{\"type\": \"PRICE\", \"bids\": [{\"price\": \"1.1\"}]}", TRUE,
                     PDict(<<"type", "bids">>,
                           <<PStr("PRICE"), PList(<<PDict(<<"price">>, <<PStr("1.1")>>)>>)>>))
LineBeat     == Body("{\"type\": \"HEARTBEAT\", \"time\": \"t\"}", TRUE,
                     PDict(<<"type", "time">>, <<PStr("HEARTBEAT"), PStr("t")>>))
LineNoType   == Body("{\"id\": \"7\"}", TRUE, PDict(<<"id">>, <<PStr("7")>>))
LineReserved == Body("{\"type\": \"PRICE\", \"values\": []}", TRUE,
                     PDict(<<"type", "values">>, <<PStr("PRICE"), PList(<<>>)>>))
LineList     == Body("[1]", TRUE, PList(<<PInt(1)>>))
LineBlank    == Body("", FALSE, PNone)

Lines == {LinePrice, LineBeat, LineNoType, LineReserved, LineList, LineBlank}

\* line.get('type'): the value under 'type', None when the key is absent
LineType(val) == IF DictHas(val, "type") THEN DictGet(val, "type") ELSE PNone

\* a variant of Skipped that drops heartbeat lines whatever the flag says
SkippedAlways(line, heartbeat) == LineType(line.val) = PStr("HEARTBEAT")

\* line 129 negated: the line is not yielded
Skipped(line, heartbeat) ==
    ~(heartbeat \/ LineType(line.val) # PStr("HEARTBEAT"))

\* a variant of LineExc under which json.loads accepts every line
LineExcLenient(line, nativetypes, heartbeat) ==
    IF ~heartbeat /\ ~IsInstanceDict(line.val) THEN "AttributeError"
    ELSE IF Skipped(line, heartbeat) \/ nativetypes THEN ""
    ELSE AttributeDictionaryExc(line.val)

\* the exception one pass of the loop body raises for a line, "" for none:
\* json.loads (line 128), line.get on a value that is not a mapping (line
\* 129, evaluated only when heartbeat is false), AttributeDictionary (line 130)
LineExc(line, nativetypes, heartbeat) ==
    IF ~line.valid THEN "JSONDecodeError"
    ELSE IF ~heartbeat /\ ~IsInstanceDict(line.val) THEN "AttributeError"
    ELSE IF Skipped(line, heartbeat) \/ nativetypes THEN ""
    ELSE AttributeDictionaryExc(line.val)

\* line 130: what is yielded for a line
LineItem(line, nativetypes) ==
    IF nativetypes THEN line.val ELSE AttributeDictionary(line.val)

\* the caller asks for the next item (next() on the generator)
RequestItem ==
    /\ jlState \in {"new", "suspended"}
    /\ jlState' = "pending"
    /\ UNCHANGED <<jlBody, jlNative, jlHeartbeat, jlRead, jlSkipped, jlYielded, jlExc>>
    /\ UNCHANGED <<ctxVars, histVars, callVars, cpVars, urlVars, adVars, parVars, mdVars>>

\* a variant of ReadLine that reads ahead of the caller's requests
ReadLineAhead ==
    /\ jlState \in {"new", "suspended", "pending"}
    /\ jlRead < Len(jlBody)
    /\ LET line == jlBody[jlRead + 1]
           exc == LineExc(line, jlNative, jlHeartbeat)
       IN /\ jlRead' = jlRead + 1
          /\ IF exc # ""
             THEN /\ jlState' = "failed"
                  /\ jlExc' = exc
                  /\ UNCHANGED <<jlSkipped, jlYielded>>
             ELSE IF Skipped(line, jlHeartbeat)
             THEN /\ jlSkipped' = jlSkipped + 1
                  /\ UNCHANGED <<jlState, jlYielded, jlExc>>
             ELSE /\ jlYielded' = Append(jlYielded, LineItem(line, jlNative))
                  /\ jlState' = "suspended"
                  /\ UNCHANGED <<jlSkipped, jlExc>>
    /\ UNCHANGED <<jlBody, jlNative, jlHeartbeat>>
    /\ UNCHANGED <<ctxVars, histVars, callVars, cpVars, urlVars, adVars, parVars, mdVars>>

\* one pass of the loop of lines 127-130 while a request is pending: the
\* next line is taken from iter_lines, decoded, then skipped or yielded
ReadLine ==
    /\ jlState = "pending"
    /\ jlRead < Len(jlBody)
    /\ LET line == jlBody[jlRead + 1]
           exc == LineExc(line, jlNative, jlHeartbeat)
       IN /\ jlRead' = jlRead + 1
          /\ IF exc # ""
             THEN /\ jlState' = "failed"
                  /\ jlExc' = exc
                  /\ UNCHANGED <<jlSkipped, jlYielded>>
             ELSE IF Skipped(line, jlHeartbeat)
             THEN /\ jlSkipped' = jlSkipped + 1
                  /\ UNCHANGED <<jlState, jlYielded, jlExc>>
             ELSE /\ jlYielded' = Append(jlYielded, LineItem(line, jlNative))
                  /\ jlState' = "suspended"
                  /\ UNCHANGED <<jlSkipped, jlExc>>
    /\ UNCHANGED <<jlBody, jlNative, jlHeartbeat>>
    /\ UNCHANGED <<ctxVars, histVars, callVars, cpVars, urlVars, adVars, parVars, mdVars>>

\* the transport has closed the body: iter_lines is exhausted, the loop
\* ends and the pending request gets StopIteration
CloseBody ==
    /\ jlState = "pending"
    /\ jlRead = Len(jlBody)
    /\ jlState' = "done"
    /\ UNCHANGED <<jlBody, jlNative, jlHeartbeat, jlRead, jlSkipped, jlYielded, jlExc>>
    /\ UNCHANGED <<ctxVars, histVars, callVars, cpVars, urlVars, adVars, parVars, mdVars>>

\* the caller drops the generator between two requests
Abandon ==
    /\ jlState \in {"new", "suspended"}
    /\ jlState' = "abandoned"
    /\ UNCHANGED <<jlBody, jlNative, jlHeartbeat, jlRead, jlSkipped, jlYielded, jlExc>>
    /\ UNCHANGED <<ctxVars, histVars, callVars, cpVars, urlVars, adVars, parVars, mdVars>>

\* the longest body, in lines
MaxLines == 3
LineSeqs == UNION {[1..n -> Lines] : n \in 0..MaxLines}

(***************************************************************************)
(* APIError, lines 139-181                                                 *)
(***************************************************************************)
\* urlparse(url).path: what follows the host, up to the query or fragment
UrlPath(u) ==
    LET host == Find(u, "://", 1) + 3
        slash == Find(u, "/", host)
        start == IF slash = 0 THEN Len(u) + 1 ELSE slash
        q == Find(u, "?", start)
        f == Find(u, "#", start)
        end == IF q = 0 /\ f = 0 THEN Len(u)
               ELSE IF q = 0 THEN f - 1
               ELSE IF f = 0 THEN q - 1
               ELSE Min(q, f) - 1
    IN SubSeq(u, start, end)

RECURSIVE ReplaceFrom(_, _, _, _)
\* str.replace(old, new) from position i on, for a non-empty old
ReplaceFrom(str, i, old, new) ==
    IF i > Len(str) THEN ""
    ELSE IF StartsWithAt(str, i, old)
    THEN new \o ReplaceFrom(str, i + Len(old), old, new)
    ELSE CharAt(str, i) \o ReplaceFrom(str, i + 1, old, new)

RECURSIVE Interleave(_, _)
\* new after every character of str
Interleave(str, new) ==
    IF str = "" THEN "" ELSE Head(str) \o new \o Interleave(Tail(str), new)

\* str.replace(old, new): every non-overlapping occurrence, left to right;
\* an empty old matches before every character and at the end
Replace(str, old, new) ==
    IF old = "" THEN new \o Interleave(str, new)
    ELSE ReplaceFrom(str, 1, old, new)

Placeholder == "<ACCOUNT>"

\* the end of the longest run of characters other than '/' that starts at j
RunEnd(str, j) == IF Find(str, "/", j) = 0 THEN Len(str) + 1 ELSE Find(str, "/", j)

\* lambda sub: sub.group(0).replace(sub.group(1), '<ACCOUNT>')  (line 179)
Redacted(group0, group1) == Replace(group0, group1, Placeholder)

RECURSIVE SubFrom(_, _)
\* re.sub(r'accounts/([^/]*)(\/|$)', ..., path) from position i on: the
\* leftmost match starts at the next 'accounts/', group 1 is the run up to
\* the next '/' or the end, and the search goes on after the match
SubFrom(path, i) ==
    IF i > Len(path) THEN ""
    ELSE IF StartsWithAt(path, i, "accounts/")
    THEN LET j == i + Len("accounts/")
             e == RunEnd(path, j)
             group1 == SubSeq(path, j, e - 1)
             slash == IF e <= Len(path) THEN "/" ELSE ""
             group0 == "accounts/" \o group1 \o slash
         IN Redacted(group0, group1) \o SubFrom(path, e + Len(slash))
    ELSE CharAt(path, i) \o SubFrom(path, i + 1)

\* APIError.clearpath applied to a path (lines 176-181)
clearpath(path) == SubFrom(path, 1)

NoError == [exc |-> "", body |-> PNone, message |-> PNone, text |-> ""]

\* a variant of APIErrorInit whose message is always the reason phrase
APIErrorInitReason(resp) ==
    LET display(message) ==
            resp.method \o " " \o clearpath(UrlPath(resp.url)) \o ": "
            \o IntStr(resp.status_code) \o " " \o Str(message)
        exc == JsonExc(resp)
        body == JsonVal(resp)
    IN IF exc = "JSONDecodeError"
       THEN [exc |-> "APIError", body |-> PStr(resp.body.text),
             message |-> PStr(resp.reason),
             text |-> display(PStr(resp.reason))]
       ELSE IF exc = "" /\ DictHas(body, "errorMessage")
       THEN [exc |-> "APIError", body |-> body,
             message |-> PStr(resp.reason),
             text |-> display(PStr(resp.reason))]
       ELSE [NoError EXCEPT !.exc = "UnboundLocalError"]

\* APIError(response), lines 156-171: the exception the raise statement of
\* moderate ends with.  It is the APIError when __init__ completes; json()
\* raising anything but a JSON decode error, or the body lacking the
\* attribute errorMessage, leaves `message` unbound for the finally clause,
\* which then raises UnboundLocalError.
APIErrorInit(resp) ==
    LET display(message) ==
            resp.method \o " " \o clearpath(UrlPath(resp.url)) \o ": "
            \o IntStr(resp.status_code) \o " " \o Str(message)
        exc == JsonExc(resp)
        body == JsonVal(resp)
    IN IF exc = "JSONDecodeError"
       THEN [exc |-> "APIError", body |-> PStr(resp.body.text),
             message |-> PStr(resp.reason),
             text |-> display(PStr(resp.reason))]
       ELSE IF exc = "" /\ DictHas(body, "errorMessage")
       THEN [exc |-> "APIError", body |-> body,
             message |-> DictGet(body, "errorMessage"),
             text |-> display(DictGet(body, "errorMessage"))]
       ELSE [NoError EXCEPT !.exc = "UnboundLocalError"]

(***************************************************************************)
(* moderate, lines 33-67: one call of a resource method                    *)
(***************************************************************************)
\* a variant of SuccessCodes that takes every 2xx status for a success
SuccessCodesAny2xx == {200, 201, 204}

SuccessCodes == {200, 201}

NoCall == [method |-> "", args |-> <<>>, kwargs |-> EmptyDict]
NoOutcome == [kind |-> "none", exc |-> "", value |-> PNone, error |-> NoError,
              materialized |-> FALSE]

Raise(exc) == [NoOutcome EXCEPT !.kind = "raise", !.exc = exc]

\* a variant of Unpacks that looks at the unpack flag only
UnpacksAnyUrl(resp) == unpack

\* line 65: the call returns the body rather than the envelope
Unpacks(resp) == unpack /\ ~Contains(resp.url, "stream")

\* lines 62-67: what moderate does with the response of the transport
Moderated(resp) ==
    IF resp.status_code \notin SuccessCodes
    THEN \* line 64: raise APIError(response)
         LET err == APIErrorInit(resp)
         IN [NoOutcome EXCEPT !.kind = "raise", !.exc = err.exc,
                              !.error = err, !.materialized = TRUE]
    ELSE IF Unpacks(resp)
    THEN \* line 66: return response.json()
         LET exc == JsonExc(resp)
         IN IF exc # ""
            THEN [Raise(exc) EXCEPT !.materialized = TRUE]
            ELSE [NoOutcome EXCEPT !.kind = "body", !.value = JsonVal(resp),
                                   !.materialized = TRUE]
    ELSE \* line 67: return response
         [NoOutcome EXCEPT !.kind = "envelope"]

\* positional arguments of the calls
MaxArgs == 3
ArgVals == {PStr("001"), PInt(7), PFloat(15)}
ArgSeqs == UNION {[1..n -> ArgVals] : n \in 0..MaxArgs}

\* keyword arguments of the calls
KwargsChoices ==
    {EmptyDict,
     PDict(<<"since">>, <<PInt(3)>>),
     PDict(<<"since", "until">>, <<PStr("t1"), PFloat(25)>>),
     PDict(<<"from", "since">>, <<PStr("t0"), PStr("t1")>>),
     PDict(<<"count", "smooth">>, <<PInt(5), PBool(FALSE)>>),
     PDict(<<"units">>, <<PFloat(-5)>>),
     PDict(<<"price">>, <<PStr("stream")>>),
     PDict(<<"time", "instruments", "options">>,
           <<PNone, PList(<<PStr("EUR_USD"), PInt(1)>>),
             PDict(<<"price">>, <<PFloat(11)>>)>>)}

\* lines 50-62 up to the transport: normalization, then the wrapped method,
\* which either raises TypeError or hands its request to the transport
Call(m, args, kwargs) ==
    /\ pc = "idle"
    /\ call' = [method |-> m, args |-> args, kwargs |-> kwargs]
    /\ nargs' = NormArgs(args)
    /\ nkwargs' = NormKwargs(kwargs)
    /\ response' = NoResponse
    /\ IF BindError(Signature(m), NormArgs(args), NormKwargs(kwargs))
       THEN /\ request' = NoRequest
            /\ outcome' = Raise("TypeError")
            /\ sends' = 0
            /\ pc' = "done"
       ELSE IF MethodExc(m, NormArgs(args), NormKwargs(kwargs)) # ""
       THEN /\ request' = NoRequest
            /\ outcome' = Raise(MethodExc(m, NormArgs(args), NormKwargs(kwargs)))
            /\ sends' = 0
            /\ pc' = "done"
       ELSE /\ request' = MethodRequest(m, NormArgs(args), NormKwargs(kwargs))
            /\ outcome' = NoOutcome
            /\ sends' = 1
            /\ pc' = "sent"
    /\ UNCHANGED <<ctxVars, histVars, cpVars, auxVars>>




\* a variant of Respond that sends the request again after a response whose
\* status is not a success code
RespondRetry(status, body, redirected) ==
    /\ pc = "sent"
    /\ LET resp == [status_code |-> status,
                    url |-> IF redirected THEN RedirectUrl ELSE PreparedUrl(request),
                    body |-> body, reason |-> Reason(status),
                    method |-> request.verb, redirected |-> redirected]
       IN /\ response' = resp
          /\ IF status \notin SuccessCodes /\ sends < 2
             THEN /\ outcome' = NoOutcome
                  /\ sends' = sends + 1
                  /\ pc' = "sent"
             ELSE /\ outcome' = Moderated(resp)
                  /\ sends' = sends
                  /\ pc' = "done"
    /\ UNCHANGED <<call, nargs, nkwargs, request, ctxVars, histVars, cpVars, auxVars>>

\* the transport returns a response: lines 62-67
Respond(status, body, redirected) ==
    /\ pc = "sent"
    /\ LET resp == [status_code |-> status,
                    url |-> IF redirected THEN RedirectUrl ELSE PreparedUrl(request),
                    body |-> body, reason |-> Reason(status),
                    method |-> request.verb, redirected |-> redirected]
       IN /\ response' = resp
          /\ outcome' = Moderated(resp)
    /\ pc' = "done"
    /\ UNCHANGED <<call, nargs, nkwargs, request, sends, ctxVars, histVars, cpVars, auxVars>>

\* the transport raises instead of returning (line 62)
TransportFail ==
    /\ pc = "sent"
    /\ outcome' = Raise("ConnectionError")
    /\ pc' = "done"
    /\ UNCHANGED <<call, nargs, nkwargs, request, response, sends, ctxVars, histVars, cpVars, auxVars>>

\* the caller has the outcome of the call; the session is ready for the next
Return ==
    /\ pc = "done"
    /\ pc' = "idle"
    /\ call' = NoCall
    /\ nargs' = <<>>
    /\ nkwargs' = EmptyDict
    /\ request' = NoRequest
    /\ response' = NoResponse
    /\ outcome' = NoOutcome
    /\ sends' = 0
    /\ UNCHANGED <<ctxVars, histVars, cpVars, auxVars>>

(***************************************************************************)
(* moderate under concurrent calls on one session: each thread runs the    *)
(* steps of lines 50-67 with its own args, kwargs and response, and reads  *)
(* the configuration of the session at lines 65 and 264-267                *)
(***************************************************************************)
MaxCalls == 2
Threads == 1..MaxCalls

NoThread == [pc |-> "idle", call |-> NoCall, nargs |-> <<>>, nkwargs |-> EmptyDict,
             request |-> NoRequest, response |-> NoResponse, outcome |-> NoOutcome]

\* the calls the threads make
ParCalls ==
    {[method |-> "Instrument.candles", args |-> <<PStr("001")>>,
      kwargs |-> PDict(<<"since">>, <<PInt(3)>>)],
     [method |-> "Instrument.candles", args |-> <<PInt(7)>>,
      kwargs |-> PDict(<<"price">>, <<PStr("stream")>>)],
     [method |-> "Pricing.pricing", args |-> <<PStr("001"), PFloat(15)>>,
      kwargs |-> PDict(<<"since", "until">>, <<PStr("t1"), PFloat(25)>>)],
     [method |-> "Order.extensions", args |-> <<PStr("001"), PInt(7)>>,
      kwargs |-> EmptyDict]}

ParStatuses == {200, 404}
ParBodies == {BodyError, BodyNested}

\* a variant of ParNormalize in which args and kwargs of moderate are shared
\* by the calls in flight rather than local to each call
ParNormalizeShared(i, m, args, kwargs) ==
    /\ par[i].pc = "idle"
    /\ par' = [j \in Threads |->
                 IF j = i
                 THEN [par[i] EXCEPT !.pc = "normalized",
                                     !.call = [method |-> m, args |-> args, kwargs |-> kwargs],
                                     !.nargs = NormArgs(args),
                                     !.nkwargs = NormKwargs(kwargs)]
                 ELSE IF par[j].pc = "normalized"
                 THEN [par[j] EXCEPT !.nargs = NormArgs(args),
                                     !.nkwargs = NormKwargs(kwargs)]
                 ELSE par[j]]
    /\ UNCHANGED <<ctxVars, histVars, callVars, cpVars, urlVars, jlVars, adVars, mdVars>>

\* lines 50-60 in thread i: the renaming and the stringification rebind the
\* thread's own args and kwargs
ParNormalize(i, m, args, kwargs) ==
    /\ par[i].pc = "idle"
    /\ par' = [par EXCEPT ![i] =
                 [par[i] EXCEPT !.pc = "normalized",
                                !.call = [method |-> m, args |-> args, kwargs |-> kwargs],
                                !.nargs = NormArgs(args),
                                !.nkwargs = NormKwargs(kwargs)]]
    /\ UNCHANGED <<ctxVars, histVars, callVars, cpVars, urlVars, jlVars, adVars, mdVars>>

\* line 62 in thread i up to the transport: the wrapped method builds its
\* request from the thread's args and kwargs and from the session's type
ParInvoke(i) ==
    /\ par[i].pc = "normalized"
    /\ LET m == par[i].call.method
           failed == BindError(Signature(m), par[i].nargs, par[i].nkwargs)
           exc == IF failed THEN "TypeError"
                  ELSE MethodExc(m, par[i].nargs, par[i].nkwargs)
       IN par' = [par EXCEPT ![i] =
                    IF exc # ""
                    THEN [par[i] EXCEPT !.pc = "done", !.outcome = Raise(exc)]
                    ELSE [par[i] EXCEPT !.pc = "sent",
                                        !.request = MethodRequest(m, par[i].nargs,
                                                                  par[i].nkwargs)]]
    /\ UNCHANGED <<ctxVars, histVars, callVars, cpVars, urlVars, jlVars, adVars, mdVars>>

\* lines 62-67 in thread i: the transport answers the thread's request
ParRespond(i, status, body) ==
    /\ par[i].pc = "sent"
    /\ LET resp == [status_code |-> status, url |-> PreparedUrl(par[i].request),
                    body |-> body, reason |-> Reason(status),
                    method |-> par[i].request.verb, redirected |-> FALSE]
       IN par' = [par EXCEPT ![i] =
                    [par[i] EXCEPT !.pc = "done", !.response = resp,
                                   !.outcome = Moderated(resp)]]
    /\ UNCHANGED <<ctxVars, histVars, callVars, cpVars, urlVars, jlVars, adVars, mdVars>>

(***************************************************************************)
(* APIError.clearpath as a function of the path                            *)
(***************************************************************************)
MaxSegments == 4
SegVals == {"accounts", "orders", "{id}"}
IdVals == {"001-002", "101", "a", "accounts", ""}
SegSeqs == UNION {[1..n -> SegVals] : n \in 1..MaxSegments}

\* the path with segments segs after the version, "{id}" standing for id
PathOf(segs, id) ==
    "/v3/" \o Join([i \in 1..Len(segs) |-> IF segs[i] = "{id}" THEN id ELSE segs[i]], "/")

ClearPaths ==
    /\ ~cpDone
    /\ cpShownA' = clearpath(PathOf(cpSegs, cpIdA))
    /\ cpShownB' = clearpath(PathOf(cpSegs, cpIdB))
    /\ cpDone' = TRUE
    /\ UNCHANGED <<cpSegs, cpIdA, cpIdB, ctxVars, histVars, callVars, auxVars>>

(***************************************************************************)
(* Specifications                                                          *)
(***************************************************************************)
CallIdle ==
    /\ pc = "idle"
    /\ call = NoCall
    /\ nargs = <<>>
    /\ nkwargs = EmptyDict
    /\ request = NoRequest
    /\ response = NoResponse
    /\ outcome = NoOutcome
    /\ sends = 0

PathIdle ==
    /\ cpSegs = <<"accounts">>
    /\ cpIdA = ""
    /\ cpIdB = ""
    /\ cpShownA = ""
    /\ cpShownB = ""
    /\ cpDone = TRUE

HistIdle ==
    /\ lastSet = NoSet
    /\ prevConfig = Config

UrlIdle == urlCall = NoUrlCall

LinesIdle ==
    /\ jlBody = <<>>
    /\ jlNative = FALSE
    /\ jlHeartbeat = TRUE
    /\ jlState = "done"
    /\ jlRead = 0
    /\ jlSkipped = 0
    /\ jlYielded = <<>>
    /\ jlExc = ""

DictIdle ==
    /\ adValid = FALSE
    /\ adDoc = PNone
    /\ adStage = "idle"
    /\ adNative = FALSE
    /\ adObj = PNone
    /\ adExc = ""
    /\ adObj2 = PNone
    /\ adExc2 = ""

ParIdle == par = [i \in Threads |-> NoThread]

NoOp == [op |-> "", key |-> "", value |-> PNone, exc |-> ""]

MutIdle ==
    /\ mdItems = ADict(<<>>, <<>>)
    /\ mdAttrs = EmptyDict
    /\ mdAlias = FALSE
    /\ mdLast = NoOp
    /\ mdOps = 0

\* the middleware: a constructed session and a sequence of calls
Init ==
    /\ \E un \in BOOLEAN : ContextInit(PStr("tokA"), PStr("UNIX"), PStr("practice"), un)
    /\ HistIdle
    /\ CallIdle
    /\ PathIdle
    /\ UrlIdle
    /\ LinesIdle
    /\ DictIdle
    /\ ParIdle
    /\ MutIdle

Next ==
    \/ /\ pc = "idle"
       /\ \E m \in Methods, args \in ArgSeqs, kwargs \in KwargsChoices :
             Call(m, args, kwargs)
    \/ /\ pc = "sent"
       /\ \E status \in Statuses, body \in Bodies, redirected \in BOOLEAN :
             Respond(status, body, redirected)
    \/ TransportFail
    \/ Return

Spec == Init /\ [][Next]_vars

\* the session: construction, then assignments to its attributes
InitCtx ==
    /\ \E tok \in TokenValues, tf \in TimeformatValues, ty \in TypeValues, un \in BOOLEAN :
          ContextInit(tok, tf, ty, un)
    /\ HistIdle
    /\ CallIdle
    /\ PathIdle
    /\ UrlIdle
    /\ LinesIdle
    /\ DictIdle
    /\ ParIdle
    /\ MutIdle

NextCtx ==
    \/ \E v \in TokenValues : SetToken(v)
    \/ \E v \in TimeformatValues : SetTimeformat(v)
    \/ \E v \in TypeValues : SetType(v)
    \/ \E v \in BOOLEAN : SetUnpack(v)

SpecCtx == InitCtx /\ [][NextCtx]_vars

\* host resolution: a session whose type is reassigned between calls of url
InitUrl ==
    /\ \E ty \in TypeValues : ContextInit(PStr("tokA"), PStr("UNIX"), ty, TRUE)
    /\ HistIdle
    /\ CallIdle
    /\ PathIdle
    /\ UrlIdle
    /\ LinesIdle
    /\ DictIdle
    /\ ParIdle
    /\ MutIdle

NextUrl ==
    \/ \E v \in TypeValues : SetType(v)
    \/ \E e \in Endpoints : ResolveUrl(e)

SpecUrl == InitUrl /\ [][NextUrl]_vars

\* one iteration of jsonlines over a streamed body
InitLines ==
    /\ ContextInit(PStr("tokA"), PStr("UNIX"), PStr("practice"), TRUE)
    /\ HistIdle
    /\ CallIdle
    /\ PathIdle
    /\ UrlIdle
    /\ DictIdle
    /\ jlBody \in LineSeqs
    /\ jlNative \in BOOLEAN
    /\ jlHeartbeat \in BOOLEAN
    /\ jlState = "new"
    /\ jlRead = 0
    /\ jlSkipped = 0
    /\ jlYielded = <<>>
    /\ jlExc = ""
    /\ ParIdle
    /\ MutIdle

NextLines ==
    \/ RequestItem
    \/ ReadLine
    \/ CloseBody
    \/ Abandon

SpecLines == InitLines /\ [][NextLines]_vars

\* a JSON body, materialized by json() or wrapped and wrapped again
InitDict ==
    /\ ContextInit(PStr("tokA"), PStr("UNIX"), PStr("practice"), TRUE)
    /\ HistIdle
    /\ CallIdle
    /\ PathIdle
    /\ UrlIdle
    /\ LinesIdle
    /\ \/ adValid = TRUE /\ adDoc \in Docs
       \/ adValid = FALSE /\ adDoc = PNone
    /\ adStage = "new"
    /\ adNative = FALSE
    /\ adObj = PNone
    /\ adExc = ""
    /\ adObj2 = PNone
    /\ adExc2 = ""
    /\ ParIdle
    /\ MutIdle

NextDict ==
    \/ \E nativetypes \in BOOLEAN : Json(nativetypes)
    \/ Construct
    \/ Reconstruct

SpecDict == InitDict /\ [][NextDict]_vars

\* host selection and unwrapping: calls whose identifiers may contain
\* 'stream'
MaxHostArgs == 2
HostArgVals == {PStr("001"), PStr("stream1")}
HostArgSeqs == UNION {[1..n -> HostArgVals] : n \in 0..MaxHostArgs}
HostKwargs == {EmptyDict, PDict(<<"price">>, <<PStr("stream")>>)}

NextHost ==
    \/ /\ pc = "idle"
       /\ \E m \in Methods, args \in HostArgSeqs, kwargs \in HostKwargs :
             Call(m, args, kwargs)
    \/ /\ pc = "sent"
       /\ \E status \in Statuses, body \in Bodies, redirected \in BOOLEAN :
             Respond(status, body, redirected)
    \/ TransportFail
    \/ Return

SpecHost == Init /\ [][NextHost]_vars

\* concurrent calls on one session whose configuration nothing assigns
NextPar ==
    \/ \E i \in Threads, c \in ParCalls : ParNormalize(i, c.method, c.args, c.kwargs)
    \/ \E i \in Threads : ParInvoke(i)
    \/ \E i \in Threads, status \in ParStatuses, body \in ParBodies :
          ParRespond(i, status, body)

SpecPar == Init /\ [][NextPar]_vars

\* an AttributeDictionary under its own four operations
InitMut ==
    /\ ContextInit(PStr("tokA"), PStr("UNIX"), PStr("practice"), TRUE)
    /\ HistIdle
    /\ CallIdle
    /\ PathIdle
    /\ UrlIdle
    /\ LinesIdle
    /\ DictIdle
    /\ ParIdle
    /\ \E doc \in MutDocs :
          /\ mdItems = AttributeDictionary(doc)
          /\ mdAttrs = PDict(AttributeDictionary(doc).k, AttributeDictionary(doc).l)
    /\ mdAlias = FALSE
    /\ mdLast = NoOp
    /\ mdOps = 0

NextMut ==
    \/ \E key \in MutKeys, value \in MutVals : SetItem(key, value)
    \/ \E key \in MutKeys : DelItem(key)
    \/ \E name \in MutKeys, value \in MutVals : SetAttr(name, value)
    \/ \E name \in MutKeys : DelAttr(name)

SpecMut == InitMut /\ [][NextMut]_vars

\* values of the assignments that come with the inherited mutators
MutDefaults == {PInt(1), PDict(<<"c">>, <<PInt(2)>>)}

\* the same with the mutators inherited from dict
NextMutAll ==
    \/ \E key \in MutKeys, value \in MutDefaults : SetItem(key, value)
    \/ \E key \in MutKeys : DelItem(key)
    \/ \E name \in MutKeys, value \in MutDefaults : SetAttr(name, value)
    \/ \E name \in MutKeys : DelAttr(name)
    \/ \E key \in MutKeys : Pop(key)
    \/ PopItem
    \/ Clear
    \/ \E other \in MutUpdates : Update(other)
    \/ \E key \in MutKeys, default \in MutDefaults : SetDefault(key, default)

SpecMutAll == InitMut /\ [][NextMutAll]_vars

\* clearpath on two paths that differ in the identifier only
InitPath ==
    /\ ContextInit(PStr("tokA"), PStr("UNIX"), PStr("practice"), TRUE)
    /\ HistIdle
    /\ CallIdle
    /\ cpSegs \in SegSeqs
    /\ cpIdA \in IdVals
    /\ cpIdB \in IdVals
    /\ cpShownA = ""
    /\ cpShownB = ""
    /\ cpDone = FALSE
    /\ UrlIdle
    /\ LinesIdle
    /\ DictIdle
    /\ ParIdle
    /\ MutIdle

NextPath == ClearPaths

SpecPath == InitPath /\ [][NextPath]_vars

(***************************************************************************)
(* Properties                                                              *)
(***************************************************************************)
Answered == pc = "done" /\ response.status_code # 0

\* C1: a response whose status is not 200 or 201 makes the call raise and
\* return nothing, neither the envelope nor a body; a response whose status
\* is 200 or 201 never makes the call raise APIError.
C1_NonSuccessRaises ==
    Answered =>
        /\ response.status_code \notin {200, 201} =>
              /\ outcome.kind = "raise"
              /\ outcome.exc # ""
              /\ outcome.value = PNone
        /\ response.status_code \in {200, 201} => outcome.exc # "APIError"

C1_Witness ==
    /\ Answered
    /\ response.status_code = 204
    /\ response.body = BodyError
    /\ outcome.kind = "raise"

\* C2: for every status outside {200, 201} and every body the caller
\* receives APIError, and when the body is valid JSON without an
\* errorMessage field the message is the HTTP reason phrase.
C2_AlwaysAPIError ==
    Answered /\ response.status_code \notin {200, 201} =>
        /\ outcome.kind = "raise"
        /\ outcome.exc = "APIError"
        /\ (response.body.valid /\ ~DictHas(response.body.val, "errorMessage")) =>
              outcome.error.message = PStr(response.reason)

\* C3: with unpack true, a successful call of a method that does not ask
\* for a streamed body returns the wrapped JSON body, not the envelope,
\* whatever its arguments (stated for the responses that were not
\* redirected and whose body json() accepts).
C3_UnpackReturnsBody ==
    (/\ Answered
     /\ unpack
     /\ response.status_code \in {200, 201}
     /\ ~request.stream
     /\ ~response.redirected
     /\ JsonExc(response) = "") =>
        /\ outcome.kind = "body"
        /\ outcome.value = AttributeDictionary(response.body.val)

\* C4: a successful call of a streaming method returns the envelope, its
\* body not materialized, whether unpack is true or false; with unpack
\* false every successful call returns the envelope.
C4_StreamReturnsEnvelope ==
    (/\ Answered
     /\ response.status_code \in {200, 201}
     /\ (request.stream \/ ~unpack)) =>
        /\ outcome.kind = "envelope"
        /\ ~outcome.materialized

RECURSIVE Split(_, _)
\* str.split(sep) for a one-character sep
Split(str, sep) ==
    IF Find(str, sep, 1) = 0 THEN <<str>>
    ELSE <<SubSeq(str, 1, Find(str, sep, 1) - 1)>>
         \o Split(SubSeq(str, Find(str, sep, 1) + 1, Len(str)), sep)

\* the arguments a request carries: the segments of its path, the values of
\* its query parameters (each item of *args is one) and the fields of its
\* JSON body (of the 'order' object for Order.create)
RequestSegments(req) == SeqToSet(Split(UrlPath(req.url), "/"))

ParamValues(params) ==
    IF params.t = "none" THEN {}
    ELSE UNION {IF x.t = "tuple" THEN SeqToSet(x.l) ELSE {x} : x \in SeqToSet(params.l)}

JsonValues(json) ==
    IF json.t = "none" THEN {}
    ELSE IF DictHas(json, "order") THEN SeqToSet(DictGet(json, "order").l)
    ELSE SeqToSet(json.l)

RequestValues(req) == ParamValues(req.params) \cup JsonValues(req.json)

IsNumber(v) == v.t \in {"int", "float"}

SuppliedNumbers ==
    {v \in SeqToSet(call.args) \cup SeqToSet(call.kwargs.l) : IsNumber(v)}

\* the decimal text of the numbers the calls supply
DecimalText(v) ==
    CASE v = PInt(7)    -> "7"
      [] v = PInt(3)    -> "3"
      [] v = PInt(5)    -> "5"
      [] v = PFloat(15) -> "1.5"
      [] v = PFloat(25) -> "2.5"
      [] v = PFloat(-5) -> "-0.5"
      [] v = PFloat(11) -> "1.1"

\* an argument as the method is to receive it: a number as its decimal text
AsText(v) == IF IsNumber(v) THEN PStr(DecimalText(v)) ELSE v

\* Pricing.pricing builds its parameters with dict({'instruments': args,
\* 'since': since}, **kwargs): a keyword 'instruments' takes the place of
\* the positional instruments, which then are in no part of the request
StarReplaced == call.method = "Pricing.pricing" /\ DictHas(nkwargs, "instruments")

Renamed(key) == IF key = "since" THEN "from" ELSE IF key = "until" THEN "to" ELSE key

\* C6: normalization changes int and float arguments only: a positional or
\* keyword argument of any other type (str, bool, None, list, mapping)
\* reaches the resource method as the same value.
C6_OthersUnchanged ==
    request # NoRequest =>
        /\ \A i \in 1..Len(call.args) :
              ~IsNumber(call.args[i]) => nargs[i] = call.args[i]
        /\ \A i \in 1..Len(call.kwargs.k) :
              (/\ ~IsNumber(call.kwargs.l[i])
               /\ ~(call.kwargs.k[i] = "from" /\ DictHas(call.kwargs, "since"))) =>
                 /\ DictHas(nkwargs, Renamed(call.kwargs.k[i]))
                 /\ DictGet(nkwargs, Renamed(call.kwargs.k[i])) = call.kwargs.l[i]

\* C7: after normalization the keyword arguments have no key 'since' and no
\* key 'until'; the value passed as 'since' is under 'from' and the value
\* passed as 'until' under 'to', every other keyword is under its own name,
\* and the request is built from the renamed keywords.
C7_AliasesRenamed ==
    call # NoCall =>
        /\ ~DictHas(nkwargs, "since")
        /\ ~DictHas(nkwargs, "until")
        /\ DictHas(call.kwargs, "since") =>
              /\ DictHas(nkwargs, "from")
              /\ DictGet(nkwargs, "from") = AsText(DictGet(call.kwargs, "since"))
        /\ DictHas(call.kwargs, "until") =>
              /\ DictHas(nkwargs, "to")
              /\ DictGet(nkwargs, "to") = AsText(DictGet(call.kwargs, "until"))
        /\ SeqToSet(nkwargs.k) = {Renamed(key) : key \in SeqToSet(call.kwargs.k)}
        /\ Len(nkwargs.k) = Cardinality(SeqToSet(nkwargs.k))
        /\ (request # NoRequest /\ call.method = "Instrument.candles") =>
              request.params = nkwargs

C7_Witness ==
    /\ pc = "sent"
    /\ call.method = "Instrument.candles"
    /\ call.kwargs = PDict(<<"since", "until">>, <<PStr("t1"), PFloat(25)>>)
    /\ nkwargs = PDict(<<"from", "to">>, <<PStr("t1"), PStr("2.5")>>)
    /\ request.params = nkwargs

\* C8: an APIError built from a failed envelope has, when the body is JSON
\* with an errorMessage field, that field as its message and the parsed body
\* as its body; when the body is not valid JSON, the reason phrase as its
\* message and the raw text as its body.
C8_ErrorContent ==
    (Answered /\ outcome.exc = "APIError") =>
        /\ (response.body.valid /\ DictHas(response.body.val, "errorMessage")) =>
              /\ outcome.error.message = DictGet(response.body.val, "errorMessage")
              /\ outcome.error.body.t = "adict"
              /\ PyEq(outcome.error.body, response.body.val)
        /\ ~response.body.valid =>
              /\ outcome.error.message = PStr(response.reason)
              /\ outcome.error.body = PStr(response.body.text)

C8_Witness ==
    /\ Answered
    /\ outcome.exc = "APIError"
    /\ response.body = BodyError
    /\ response.status_code = 404
    /\ call.method = "Account.changes"
    /\ call.args = <<PStr("001"), PInt(7)>>
    /\ outcome.error.text = "GET /v3/accounts/<ACCOUNT>/changes: 404 boom"

\* the segments of a path with each segment that follows an 'accounts'
\* segment replaced by the placeholder
RedactedPath(segs, id) ==
    LET actual == [i \in 1..Len(segs) |-> IF segs[i] = "{id}" THEN id ELSE segs[i]]
    IN "/v3/" \o Join([i \in 1..Len(segs) |->
                         IF i > 1 /\ actual[i - 1] = "accounts"
                         THEN Placeholder ELSE actual[i]], "/")

\* every identifier of the path follows an 'accounts' segment
IdsFollowAccounts(segs) ==
    \A i \in 1..Len(segs) : segs[i] = "{id}" => (i > 1 /\ segs[i - 1] = "accounts")

\* C9: the displayed path is the path with each segment that follows an
\* 'accounts/' component replaced by '<ACCOUNT>' and every other character
\* unchanged, so two paths that differ in the account identifier only are
\* displayed the same.
C9_Redaction ==
    cpDone =>
        /\ cpShownA = RedactedPath(cpSegs, cpIdA)
        /\ IdsFollowAccounts(cpSegs) => cpShownA = cpShownB

\* C10 as stated: assigning a timeformat outside {UNIX, RFC3339} or a type
\* outside {trade, practice} raises and leaves the configuration unchanged.
C10_Original ==
    (\/ /\ lastSet.name = "timeformat"
        /\ lastSet.value \notin {PStr("UNIX"), PStr("RFC3339")}
     \/ /\ lastSet.name = "type"
        /\ lastSet.value \notin {PStr("trade"), PStr("practice")}) =>
        /\ lastSet.raised
        /\ Config = prevConfig

\* C10, amended: assigning a timeformat that is not a string whose
\* upper-case form is UNIX or RFC3339, or a type that is not a string whose
\* lower-case form is trade or practice, raises and leaves the stored
\* timeformat, type, token and unpack and both headers unchanged.
C10_RejectedUnchanged ==
    (\/ /\ lastSet.name = "timeformat"
        /\ (lastSet.value.t # "str" \/ Upper(lastSet.value.s) \notin {"UNIX", "RFC3339"})
     \/ /\ lastSet.name = "type"
        /\ (lastSet.value.t # "str" \/ Lower(lastSet.value.s) \notin {"trade", "practice"})) =>
        /\ lastSet.raised
        /\ Config = prevConfig

C10_Witness ==
    /\ lastSet.name = "timeformat"
    /\ lastSet.value = PStr("ISO8601")
    /\ lastSet.raised
    /\ prevConfig.timeformat = PStr("Rfc3339")
    /\ headers.AcceptDatetimeFormat = "RFC3339"

\* C11 (as stated): in every state of a session the stored type is exactly
\* 'trade' or 'practice' and the stored timeformat exactly 'UNIX' or
\* 'RFC3339'.
C11_Original ==
    /\ type \in {PStr("trade"), PStr("practice")}
    /\ timeformat \in {PStr("UNIX"), PStr("RFC3339")}

\* C11 (amended): in every state of a session the stored type is a string
\* whose lower-case form is 'trade' or 'practice' and the stored timeformat
\* a string whose upper-case form is 'UNIX' or 'RFC3339'; the value is stored
\* as it was given, and an assignment of type or timeformat raises exactly
\* when the case-folded value is outside the enumeration.
C11_StoredCaseFolded ==
    /\ type.t = "str" /\ Lower(type.s) \in {"trade", "practice"}
    /\ timeformat.t = "str" /\ Upper(timeformat.s) \in {"UNIX", "RFC3339"}
    /\ lastSet.name = "type" =>
          /\ lastSet.raised <=>
                ~(lastSet.value.t = "str" /\ Lower(lastSet.value.s) \in {"trade", "practice"})
          /\ ~lastSet.raised => type = lastSet.value
    /\ lastSet.name = "timeformat" =>
          /\ lastSet.raised <=>
                ~(lastSet.value.t = "str" /\ Upper(lastSet.value.s) \in {"UNIX", "RFC3339"})
          /\ ~lastSet.raised => timeformat = lastSet.value

C11_Witness ==
    /\ lastSet = [name |-> "type", value |-> PStr("live"), raised |-> TRUE]
    /\ type = PStr("Practice")
    /\ timeformat = PStr("unix")

\* C12 (as stated): the Authorization header is 'Bearer ' followed by the
\* stored token and the Accept-Datetime-Format header is the stored
\* timeformat.
C12_Original ==
    /\ headers.Authorization = "Bearer " \o token.s
    /\ timeformat.t = "str" /\ headers.AcceptDatetimeFormat = timeformat.s

\* C12 (amended): after any sequence of assignments, rejected ones included,
\* the Authorization header is 'Bearer ' followed by the stored token and
\* the Accept-Datetime-Format header is the upper-case form of the stored
\* timeformat.
C12_HeadersFollow ==
    /\ headers.Authorization = "Bearer " \o token.s
    /\ timeformat.t = "str" /\ headers.AcceptDatetimeFormat = Upper(timeformat.s)

C12_Witness ==
    /\ lastSet = [name |-> "timeformat", value |-> PStr("ISO8601"), raised |-> TRUE]
    /\ prevConfig.token = PStr("tokA")
    /\ token = PStr("tokA")
    /\ timeformat = PStr("Rfc3339")
    /\ headers = [Authorization |-> "Bearer tokA", AcceptDatetimeFormat |-> "RFC3339"]

\* the subdomain url is to select for an endpoint
Subdomain(endpoint) ==
    IF \E i \in 1..(Len(endpoint) - 5) : SubSeq(endpoint, i, i + 5) = "stream"
    THEN "stream-fx" ELSE "api-fx"

\* C13: url(endpoint) is 'https://', the subdomain 'stream-fx' when the
\* endpoint contains 'stream' and 'api-fx' otherwise, the type the session
\* has at the call, '.oanda.com/v3' and the endpoint unchanged.
C13_HostResolution ==
    urlCall # NoUrlCall =>
        urlCall.result = "https://" \o Subdomain(urlCall.endpoint) \o urlCall.type.s
                         \o ".oanda.com/v3" \o urlCall.endpoint

C13_Witness ==
    /\ urlCall.endpoint = "/accounts/001/pricing/stream"
    /\ urlCall.type = PStr("trade")
    /\ urlCall.result = "https://stream-fxtrade.oanda.com/v3/accounts/001/pricing/stream"
    /\ type = PStr("practice")

RECURSIVE BadKeyIn(_)
\* some mapping of v, reached through nested mappings and through elements
\* of lists that are plain mappings, has a key that is a name of dict or is
\* not an identifier
BadKeyIn(v) ==
    CASE v.t = "dict" \/ v.t = "adict" ->
           \E i \in 1..Len(v.k) :
              \/ v.k[i] \in DictDir
              \/ ~IsIdentifier(v.k[i])
              \/ BadKeyIn(v.l[i])
      [] v.t = "list" ->
           \E i \in 1..Len(v.l) : v.l[i].t = "dict" /\ BadKeyIn(v.l[i])
      [] OTHER -> FALSE

\* the line is a mapping whose 'type' is 'HEARTBEAT'
IsBeat(line) ==
    /\ line.val.t = "dict"
    /\ \E i \in 1..Len(line.val.k) :
          line.val.k[i] = "type" /\ line.val.l[i] = PStr("HEARTBEAT")

\* the lines jsonlines is to yield for a body
ExpectedLines(body, heartbeat) ==
    SelectSeq(body, LAMBDA line : heartbeat \/ ~IsBeat(line))

\* the items are the values of the lines, in order: as parsed when
\* nativetypes is set, as equal AttributeDictionary instances otherwise
SameItems(items, lines, nativetypes) ==
    /\ Len(items) = Len(lines)
    /\ \A i \in 1..Len(lines) :
          /\ PyEq(items[i], lines[i].val)
          /\ IF nativetypes THEN items[i] = lines[i].val ELSE items[i].t = "adict"

Ended == jlState \in {"done", "failed"}

FirstOf(indices) == CHOOSE k \in indices : \A j \in indices : k <= j

\* C15 (as stated): the iteration ends with the decode error at the first
\* line that is not valid JSON, the earlier lines yielded and nothing
\* later, or normally with every non-skipped line yielded when every line
\* is valid.
C15_Original ==
    Ended =>
        LET invalid == {i \in 1..Len(jlBody) : ~jlBody[i].valid}
        IN IF invalid # {}
           THEN /\ jlState = "failed"
                /\ jlExc = "JSONDecodeError"
                /\ jlRead = FirstOf(invalid)
                /\ SameItems(jlYielded,
                             ExpectedLines(SubSeq(jlBody, 1, FirstOf(invalid) - 1), jlHeartbeat),
                             jlNative)
           ELSE /\ jlState = "done"
                /\ SameItems(jlYielded, ExpectedLines(jlBody, jlHeartbeat), jlNative)

\* the line ends the iteration with an error: it is not valid JSON, or it
\* is not a mapping while the filter needs its 'type', or it is to be
\* yielded wrapped and cannot be wrapped
Breaks(line) ==
    \/ ~line.valid
    \/ /\ line.val.t # "dict"
       /\ ~jlHeartbeat \/ (~jlNative /\ AttributeDictionaryExc(line.val) # "")
    \/ /\ line.val.t = "dict"
       /\ ~jlNative
       /\ jlHeartbeat \/ ~IsBeat(line)
       /\ BadKeyIn(line.val)

\* C15 (amended): the iteration ends in exactly one of three ways.  At the
\* first line that is not valid JSON, with the decode error; at the first
\* valid line that is not a mapping (when the filter or the wrapping needs
\* one) or that has a reserved or non-identifier key (when it is to be
\* yielded wrapped), with another error; or normally, when the transport
\* closes the body.  In the first two the items of the earlier lines have
\* been yielded in order and nothing of a later line is read or yielded;
\* in the third every non-skipped line has been yielded.
C15_Endings ==
    Ended =>
        LET breaking == {i \in 1..Len(jlBody) : Breaks(jlBody[i])}
        IN IF breaking # {}
           THEN /\ jlState = "failed"
                /\ jlExc # ""
                /\ jlExc = "JSONDecodeError" <=> ~jlBody[FirstOf(breaking)].valid
                /\ jlRead = FirstOf(breaking)
                /\ SameItems(jlYielded,
                             ExpectedLines(SubSeq(jlBody, 1, FirstOf(breaking) - 1), jlHeartbeat),
                             jlNative)
           ELSE /\ jlState = "done"
                /\ jlExc = ""
                /\ jlRead = Len(jlBody)
                /\ SameItems(jlYielded, ExpectedLines(jlBody, jlHeartbeat), jlNative)

C15_Witness ==
    /\ jlState = "failed"
    /\ jlExc = "JSONDecodeError"
    /\ jlBody = <<LinePrice, LineBeat, LineBlank>>
    /\ ~jlHeartbeat
    /\ Len(jlYielded) = 1
    /\ jlRead = 3

\* C16: a line is read only while a request of the caller is pending, one
\* line at a time; the lines read are never more than the items delivered
\* plus the heartbeat lines skipped plus one, and between two requests
\* exactly the items delivered plus the lines skipped; once the iteration
\* is abandoned nothing is read.
C16_PullBased ==
    /\ [](/\ jlRead <= Len(jlYielded) + jlSkipped + 1
          /\ jlState \in {"new", "suspended", "abandoned", "done"} =>
                jlRead = Len(jlYielded) + jlSkipped)
    /\ [][/\ jlRead' # jlRead => (jlState = "pending" /\ jlRead' = jlRead + 1)
          /\ jlState = "abandoned" => (jlRead' = jlRead /\ jlYielded' = jlYielded)]_vars

C16_Witness ==
    /\ jlState = "abandoned"
    /\ Len(jlBody) = 3
    /\ jlRead = 2
    /\ jlSkipped = 1
    /\ Len(jlYielded) = 1

\* the value is a list whose elements are all mappings
ListOfMappings(v) == v.t = "list" /\ \A i \in 1..Len(v.l) : v.l[i].t = "dict"

\* the keys of some mapping of v, at any depth, include '__dict__'
RECURSIVE HasDunderDict(_)
HasDunderDict(v) ==
    \/ \E i \in 1..Len(v.k) : v.k[i] = "__dict__"
    \/ \E i \in 1..Len(v.l) : HasDunderDict(v.l[i])

RECURSIVE RoundTrip(_, _)
\* got is the wrapped form of orig and gives back, by member access, the
\* value of every key of orig, through nested mappings and lists
RoundTrip(orig, got) ==
    CASE orig.t = "dict" /\ got.t = "adict" ->
           \A i \in 1..Len(orig.k) :
              /\ GetAttr(got, orig.k[i]) # NoAttr
              /\ PyEq(GetAttr(got, orig.k[i]), orig.l[i])
              /\ RoundTrip(orig.l[i], GetAttr(got, orig.k[i]))
      [] orig.t = "list" /\ got.t = "list" ->
           /\ Len(got.l) = Len(orig.l)
           /\ \A i \in 1..Len(orig.l) : RoundTrip(orig.l[i], got.l[i])
      [] OTHER -> PyEq(got, orig)

\* a construction from the document has been made
Constructed == adStage = "wrapped" \/ (adStage = "json" /\ adValid /\ ~adNative)

\* C18: for every JSON mapping without a reserved or non-identifier key at
\* any level, the construction succeeds and member access on the result
\* gives, for each key, a value equal to the mapping's value, recursively.
C18_RoundTrip ==
    (Constructed /\ adDoc.t = "dict" /\ ~BadKeyIn(adDoc)) =>
        /\ adExc = ""
        /\ adObj.t = "adict"
        /\ RoundTrip(adDoc, adObj)

\* C19: for every value v that AttributeDictionary accepts,
\* AttributeDictionary(AttributeDictionary(v)) raises nothing and is the
\* same as AttributeDictionary(v): the same keys in the same order, the
\* same wrapped mappings, the same lists.
C19_Idempotent ==
    adStage = "rewrapped" =>
        /\ adExc2 = ""
        /\ adObj2 = adObj
        /\ PyEq(adObj2, adObj)

C19_Witness ==
    /\ adStage = "rewrapped"
    /\ adDoc = PDict(<<"a", "b">>,
                      <<PDict(<<"c">>, <<PInt(2)>>),
                        PList(<<PDict(<<"c">>, <<PInt(2)>>), PInt(3)>>)>>)
    /\ adObj2 = ADict(<<"a", "b">>,
                       <<ADict(<<"c">>, <<PInt(2)>>),
                         PList(<<ADict(<<"c">>, <<PInt(2)>>), PInt(3)>>)>>)

\* C20: the construction from a JSON mapping raises whenever a mapping of
\* the document, reached through nested mappings and through elements of
\* lists that are mappings, has a key that is a name of dict or is not an
\* identifier; nothing is constructed.
C20_BadKeyRaises ==
    (Constructed /\ adDoc.t = "dict" /\ BadKeyIn(adDoc)) =>
        /\ adExc # ""
        /\ adObj = PNone

C20_Witness ==
    /\ adStage = "wrapped"
    /\ adDoc = PDict(<<"a", "b">>,
                      <<PInt(1), PList(<<PDict(<<"c", "1x">>, <<PInt(2), PInt(3)>>)>>)>>)
    /\ adExc = "AttributeError"

\* C23: a call that reaches the transport hands it exactly one request;
\* the response or the failure of the transport ends the call, whatever the
\* status and whatever materialization raises; the response is the one to
\* this call's request and a returned body is the body of that response; a
\* call starts without a response.
C23_SingleRequest ==
    /\ [](/\ pc = "sent" => (sends = 1 /\ response = NoResponse)
          /\ pc = "done" => sends = (IF request # NoRequest THEN 1 ELSE 0)
          /\ Answered =>
                /\ response.method = request.verb
                /\ ~response.redirected => response.url = PreparedUrl(request)
                /\ outcome.kind = "body" => PyEq(outcome.value, response.body.val))
    /\ [][/\ pc = "sent" => (pc' = "done" /\ request' = request /\ sends' = sends)
          /\ pc = "done" => pc' = "idle"
          /\ pc = "idle" => response' = NoResponse]_vars

C23_Witness ==
    /\ pc = "done"
    /\ sends = 1
    /\ response.status_code = 404
    /\ response.body = BodyHtml
    /\ outcome.exc = "APIError"

\* C25: a non-streaming call answered 200 or 201 with a JSON body that has
\* a reserved or non-identifier key raises the construction error, after
\* its one request, when unpack is true; when unpack is false it returns
\* the envelope, not materialized, and json() on the envelope raises.
C25_ConstructionError ==
    (/\ Answered
     /\ response.status_code \in {200, 201}
     /\ ~request.stream
     /\ response.body.valid
     /\ BadKeyIn(response.body.val)) =>
        IF unpack
        THEN /\ outcome.kind = "raise"
             /\ outcome.exc = "AttributeError"
             /\ outcome.value = PNone
             /\ sends = 1
        ELSE /\ outcome.kind = "envelope"
             /\ ~outcome.materialized
             /\ JsonExc(response) = "AttributeError"

\* C26: Pricing.pricing(accountID, ..., since=t) sends the query parameter
\* since=t, and Transaction.idrange(accountID, since=a, until=b) sends
\* from=a and to=b.
C26_DeclaredDelivered ==
    /\ (/\ pc \in {"sent", "done"}
        /\ call.method = "Pricing.pricing"
        /\ Len(call.args) >= 1
        /\ DictHas(call.kwargs, "since")) =>
           /\ request # NoRequest
           /\ DictHas(request.params, "since")
           /\ DictGet(request.params, "since") = AsText(DictGet(call.kwargs, "since"))
    /\ (/\ pc \in {"sent", "done"}
        /\ call.method = "Transaction.idrange"
        /\ Len(call.args) = 1
        /\ SeqToSet(call.kwargs.k) = {"since", "until"}) =>
           /\ request # NoRequest
           /\ DictGet(request.params, "from") = AsText(DictGet(call.kwargs, "since"))
           /\ DictGet(request.params, "to") = AsText(DictGet(call.kwargs, "until"))

\* the text of an argument in a path
PathText(v) == AsText(v).s

\* C27: Order.extensions(accountID, orderSpecifier, **extensions) and
\* Trade.extensions(accountID, tradeSpecifier, **extensions) hand the
\* transport exactly one PUT request to the URL of
\* /accounts/{accountID}/orders/{orderSpecifier}/clientExtensions
\* (respectively .../trades/{tradeSpecifier}/clientExtensions) with a JSON
\* body.
C27_ExtensionsPut ==
    (/\ pc \in {"sent", "done"}
     /\ call.method \in {"Order.extensions", "Trade.extensions"}
     /\ Len(call.args) = 2) =>
        /\ sends = 1
        /\ request.verb = "PUT"
        /\ request.url = "https://api-fx" \o type.s \o ".oanda.com/v3/accounts/"
                          \o PathText(call.args[1])
                          \o (IF call.method = "Order.extensions" THEN "/orders/" ELSE "/trades/")
                          \o PathText(call.args[2]) \o "/clientExtensions"
        /\ request.json # PNone

\* the host of the URL is the streaming one / the standard one
StreamingHost(u) == SubSeq(u, 1, 17) = "https://stream-fx"
StandardHost(u) == SubSeq(u, 1, 14) = "https://api-fx"

\* C30: for every answered call that was not redirected, a request sent to
\* the streaming host never gives a materialized body and gives the
\* envelope whenever the status is 200 or 201; a call that returns a
\* materialized body had its request sent to the standard host.
C30_HostAndUnwrap ==
    (Answered /\ ~response.redirected) =>
        /\ StreamingHost(request.url) =>
              /\ outcome.kind # "body"
              /\ ~outcome.materialized \/ response.status_code \notin {200, 201}
              /\ response.status_code \in {200, 201} => outcome.kind = "envelope"
        /\ outcome.kind = "body" => StandardHost(request.url)

C30_Witness ==
    /\ Answered
    /\ ~response.redirected
    /\ unpack
    /\ call.method = "Order.details"
    /\ request.url = "https://stream-fxpractice.oanda.com/v3/accounts/stream1/orders/001"
    /\ response.status_code = 200
    /\ outcome.kind = "envelope"

\* what a call raises before the transport when it runs alone, "" for none
AloneExc(c) ==
    IF BindError(Signature(c.method), NormArgs(c.args), NormKwargs(c.kwargs))
    THEN "TypeError"
    ELSE MethodExc(c.method, NormArgs(c.args), NormKwargs(c.kwargs))

\* the request of a call that runs alone
AloneRequest(c) ==
    IF AloneExc(c) # "" THEN NoRequest
    ELSE MethodRequest(c.method, NormArgs(c.args), NormKwargs(c.kwargs))

\* the outcome of a call that runs alone and is answered with status and body
AloneOutcome(c, status, body) ==
    Moderated([status_code |-> status, url |-> PreparedUrl(AloneRequest(c)),
               body |-> body, reason |-> Reason(status),
               method |-> AloneRequest(c).verb, redirected |-> FALSE])

\* C24: for every interleaving of two or more calls on the same session
\* during which no configuration field is assigned, the normalized request
\* of each call and its outcome (returned body, returned envelope or raised
\* error) are those of the same call run alone.
C24_Isolated ==
    \A i \in Threads :
        /\ par[i].pc = "sent" =>
              /\ AloneExc(par[i].call) = ""
              /\ par[i].request = AloneRequest(par[i].call)
        /\ par[i].pc = "done" =>
              /\ par[i].request = AloneRequest(par[i].call)
              /\ par[i].outcome =
                    IF AloneExc(par[i].call) # "" THEN Raise(AloneExc(par[i].call))
                    ELSE AloneOutcome(par[i].call, par[i].response.status_code,
                                      par[i].response.body)

C24_Witness ==
    /\ par[1].pc = "done"
    /\ par[1].call.method = "Pricing.pricing"
    /\ par[1].outcome.kind = "body"
    /\ par[2].pc = "sent"
    /\ par[2].call.method = "Instrument.candles"
    /\ DictHas(par[2].request.params, "from")

\* the member view and the keyed view of an object agree: the names of the
\* data members are the keys, and obj.k is obj[k] for every key k
ViewsAgree(o) ==
    /\ SeqToSet(o.attrs.k) = SeqToSet(o.items.k)
    /\ \A key \in SeqToSet(o.items.k) : ObjGetAttr(o, key) = DictGet(o.items, key)

\* C21: after any sequence of keyed assignments, keyed deletions, member
\* assignments and member deletions on an AttributeDictionary, the member
\* view and the keyed view agree: the set of data member names equals the
\* set of keys, and for every key member access returns the same stored
\* value as keyed lookup.
C21_ViewsAgree == ViewsAgree(TheObj)

\* the last operation was an assignment that stored its value
Assigned ==
    /\ mdLast.op \in {"setitem", "setattr"}
    /\ \/ mdLast.exc = ""
       \/ mdLast.exc = "TypeError" /\ mdLast.key = "__dict__"

\* C22: for every list stored under a key of an AttributeDictionary, the
\* stored list has the same length and element order as the original; each
\* element that is a plain mapping is replaced by its wrapped form, and
\* every other element (scalar, already wrapped mapping, nested list
\* together with whatever mappings it contains) is passed through untouched.
C22_ListElements ==
    (Assigned /\ mdLast.value.t = "list") =>
        LET stored == DictGet(mdItems, mdLast.key)
            given == mdLast.value.l
        IN /\ stored.t = "list"
           /\ Len(stored.l) = Len(given)
           /\ \A i \in 1..Len(given) :
                 IF given[i].t = "dict"
                 THEN /\ stored.l[i].t = "adict"
                      /\ stored.l[i] = AttributeDictionary(given[i])
                 ELSE stored.l[i] = given[i]

C22_Witness ==
    /\ Assigned
    /\ mdLast.key = "a"
    /\ mdLast.value.t = "list"
    /\ Len(mdLast.value.l) = 4
    /\ DictGet(mdItems, "a").l[1].t = "adict"
    /\ DictGet(mdItems, "a").l[2] = PInt(3)
    /\ DictGet(mdItems, "a").l[4] = PList(<<PDict(<<"c">>, <<PInt(2)>>)>>)

\* C28: the agreement between member view and keyed view of an
\* AttributeDictionary (same set of names, same value per name) and the
\* validity of every stored key (identifier, not reserved) also hold after
\* any sequence of operations that includes the mutators inherited from
\* dict: pop, popitem, clear, update and setdefault.
C28_InheritedMutators ==
    /\ ViewsAgree(TheObj)
    /\ \A key \in SeqToSet(mdItems.k) : ~KeyRejected(key)

\* C29: a keyed or member assignment on an existing AttributeDictionary that
\* is rejected (reserved name or non-identifier key), and a keyed or member
\* deletion of an absent key, raise an error and leave the dictionary
\* unchanged: the keys, the stored values and the data members are all the
\* same as before the operation.
C29_RejectedUnchanged ==
    [][LET op == mdLast'.op
           key == mdLast'.key
           refused == \/ op \in {"setitem", "setattr"} /\ KeyRejected(key)
                      \/ op \in {"delitem", "delattr"} /\ ~DictHas(mdItems, key)
       IN refused => /\ mdLast'.exc # ""
                     /\ mdItems' = mdItems
                     /\ mdAttrs' = mdAttrs
                     /\ mdAlias' = mdAlias]_vars

C29_Witness ==
    /\ mdLast.op = "setattr"
    /\ mdLast.key = "1x"
    /\ mdLast.exc = "AttributeError"
    /\ mdOps >= 2
    /\ DictHas(mdItems, "a")
    /\ DictHas(mdAttrs, "a")
====
